---- MODULE Spec2Model ----
(***************************************************************************)
(* Model of native-variants.  Of src/src/lib/cn.ts: styled,                *)
(* createNVA().styled, the per-resolver caches, clearStyleCache, the       *)
(* helpers createCacheKey, normalizeVariantValue, applyVariant,            *)
(* applyCompound, computeSlotStyles and expandUtils, and the style merger  *)
(* cn.  Of src/src/utils/alpha.ts: alpha.  Of                              *)
(* src/src/provider/theme-provider.tsx: ThemeProvider.                     *)
(*                                                                         *)
(* JS values are tagged records, JS objects with ordered keys are          *)
(* sequences of <<key, value>> pairs, resolved style objects are functions *)
(* from property names to numbers.                                         *)
(***************************************************************************)
EXTENDS Integers, Sequences, FiniteSets, TLC

VARIABLES inputUtils, resolvers, styleCache, instanceCache, nextId,
          utilCalls, factoryCalls, calls, last, returned,
          primitiveCache, cleared,
          pending, mapIds,
          inputTheme, resolvedTheme,
          expansion, merging, colour,
          providerProps, appearance, storage, lifecycle, mode, systemScheme,
          isHydrated, subscribed, read, view, persisted, requests

\* The variables of interleaved resolver calls.
raceVars == <<pending, mapIds>>

\* options.theme and the theme createNVA has built from it.
themeVars == <<inputTheme, resolvedTheme>>

\* The variables of a mounted ThemeProvider and of what surrounds it.
providerVars == <<providerProps, appearance, storage, lifecycle, mode,
                  systemScheme, isHydrated, subscribed, read, view, persisted,
                  requests>>

\* The calls of the helpers cn (lib/cn.ts) and alpha (utils/alpha.ts).
helperVars == <<merging, colour>>

\* The variables a resolver never changes.
outside == <<raceVars, themeVars, expansion, helperVars, providerVars>>

vars == <<inputUtils, resolvers, styleCache, instanceCache, nextId,
          utilCalls, factoryCalls, calls, last, returned,
          primitiveCache, cleared, outside>>

\* The variables of lib/cn.ts.
libraryVars == <<inputUtils, resolvers, styleCache, instanceCache, nextId,
                 utilCalls, factoryCalls, calls, last, returned,
                 primitiveCache, cleared, raceVars, themeVars, expansion,
                 helperVars>>

(***************************************************************************)
(* Bounds of the model.  Spec runs up to MaxResolvers resolvers through    *)
(* MaxCalls calls over the selections of CacheProps; SpecResolve runs up   *)
(* to MaxDeclared resolvers through MaxResolved calls over all of the      *)
(* selections and configurations of the model.                             *)
(***************************************************************************)
MaxResolvers == 2
MaxCalls == 3
MaxDeclared == 1
MaxResolved == 2
MaxStyleKeys == 2
MaxRacers == 3
MaxRequests == 2

(***************************************************************************)
(* JS values that occur as variant values: strings, booleans, undefined.   *)
(***************************************************************************)
Str(s) == [t |-> "str", s |-> s, b |-> FALSE]
Bool(b) == [t |-> "bool", s |-> "", b |-> b]
Undef == [t |-> "undef", s |-> "", b |-> FALSE]

\* String(v) of JavaScript.
String(v) ==
  CASE v.t = "str" -> v.s
    [] v.t = "bool" -> (IF v.b THEN "true" ELSE "false")
    [] OTHER -> "undefined"

Range(seq) == {seq[i] : i \in 1..Len(seq)}

\* An object literal: the keys in insertion order, and the value of a key
\* (undefined when the object has no such own property).
Keys(obj) == [i \in 1..Len(obj) |-> obj[i][1]]
HasOwn(obj, k) == \E i \in 1..Len(obj) : obj[i][1] = k
Get(obj, k) ==
  IF HasOwn(obj, k)
    THEN (CHOOSE p \in Range(obj) : p[1] = k)[2]
    ELSE Undef

\* A style object without util keys, as a mapping property -> value.
StyleObject(pairs) ==
  [k \in Range(Keys(pairs)) |-> (CHOOSE p \in Range(pairs) : p[1] = k)[2]]

EmptyStyle == StyleObject(<<>>)

\* { ...a, ...b } and Object.assign(a, b): the later source wins per key.
Merge(a, b) ==
  [k \in DOMAIN a \cup DOMAIN b |-> IF k \in DOMAIN b THEN b[k] ELSE a[k]]

(***************************************************************************)
(* createCacheKey.  keys.sort() orders strings by code units; on the names *)
(* of the model that order is CodeUnitOrder.                               *)
(***************************************************************************)
CodeUnitOrder == <<"2", "big", "size", "tone">>

Rank(k) == CHOOSE i \in 1..Len(CodeUnitOrder) : CodeUnitOrder[i] = k

RECURSIVE InsertSorted(_, _)
InsertSorted(sorted, k) ==
  IF sorted = <<>> THEN <<k>>
  ELSE IF Rank(k) < Rank(Head(sorted)) THEN <<k>> \o sorted
  ELSE <<Head(sorted)>> \o InsertSorted(Tail(sorted), k)

KeysAsEnumerated(keys) == keys

\* keys.sort()
RECURSIVE SortKeys(_)
SortKeys(keys) ==
  IF keys = <<>> THEN <<>>
  ELSE InsertSorted(SortKeys(Tail(keys)), Head(keys))

\* The loop of createCacheKey over the sorted keys from index i on.
RECURSIVE KeyLoop(_, _, _)
KeyLoopSkippingNothing(kv, keys, i) ==
  IF i > Len(keys) THEN ""
  ELSE keys[i] \o ":" \o String(Get(kv, keys[i])) \o ";"
         \o KeyLoop(kv, keys, i + 1)

KeyLoop(kv, keys, i) ==
  IF i > Len(keys) THEN ""
  ELSE (IF Get(kv, keys[i]) # Undef
          THEN keys[i] \o ":" \o String(Get(kv, keys[i])) \o ";"
          ELSE "")
       \o KeyLoop(kv, keys, i + 1)

\* props is [given |-> FALSE] for a call without argument, else the object.
createCacheKey(props) ==
  IF ~props.given THEN "{}"
  ELSE IF Len(props.kv) = 0 THEN "{}"
  ELSE LET key == KeyLoop(props.kv, SortKeys(Keys(props.kv)), 1)
       IN  IF key = "" THEN "{}" ELSE key

normalizeVariantValue(value) ==
  IF value.t = "bool"
    THEN (IF value.b THEN "true" ELSE "false")
    ELSE String(value)

(***************************************************************************)
(* The variant matcher, the compound matcher and the slot compositor.      *)
(* variants is the table in declaration order: a sequence of               *)
(* [name, values], values a mapping value -> slot -> style.  props is the  *)
(* resolved selection, a mapping name -> value.                            *)
(***************************************************************************)

\* What a property lookup on an object literal finds when the object has no
\* such own key: the members of Object.prototype.  constructor is the
\* function Object; its own property name is the string "Object", written
\* here as its characters (its other own properties are numbers, objects
\* and functions, which a spread copies nothing from).
ObjectPrototype ==
  [constructor |-> [name |-> <<"O", "b", "j", "e", "c", "t">>]]

\* { ...string }: one property per character, keyed by its index.
IndexKeys == <<"0", "1", "2", "3", "4", "5">>

SpreadString(chars) ==
  [k \in {IndexKeys[i] : i \in 1..Len(chars)} |->
     chars[CHOOSE i \in 1..Len(chars) : IndexKeys[i] = k]]

\* variantConfig[normalizedValue]?.[slot] as { ...styleForValue } copies
\* it, EmptyStyle standing for a miss.  The lookup is not restricted to own
\* keys.
StyleForValue(variantConfig, normalizedValue, slot) ==
  IF normalizedValue \in DOMAIN variantConfig
    THEN IF slot \in DOMAIN variantConfig[normalizedValue]
           THEN variantConfig[normalizedValue][slot]
           ELSE EmptyStyle
    ELSE IF normalizedValue \in DOMAIN ObjectPrototype
            /\ slot \in DOMAIN ObjectPrototype[normalizedValue]
           THEN SpreadString(ObjectPrototype[normalizedValue][slot])
           ELSE EmptyStyle

RECURSIVE VariantLoop(_, _, _, _, _)
VariantLoop(slot, variants, props, i, style) ==
  IF i > Len(variants) THEN style
  ELSE LET variantKey == variants[i].name IN
       IF variantKey \notin DOMAIN props
         THEN VariantLoop(slot, variants, props, i + 1, style)
       ELSE IF props[variantKey] = Undef
         THEN VariantLoop(slot, variants, props, i + 1, style)
       ELSE VariantLoop(slot, variants, props, i + 1,
              Merge(style,
                    StyleForValue(variants[i].values,
                                  normalizeVariantValue(props[variantKey]),
                                  slot)))

\* for (const variantKey in variants): the own keys that are array indices
\* come first, in ascending order, then the other keys in the order they
\* were written.  IndexKeys are the array indices among the names of the
\* model.
ForIn(variants) ==
  LET indices == SelectSeq(IndexKeys,
                   LAMBDA k : \E i \in 1..Len(variants) : variants[i].name = k)
  IN  [j \in 1..Len(indices) |->
         variants[CHOOSE i \in 1..Len(variants) : variants[i].name = indices[j]]]
      \o SelectSeq(variants, LAMBDA v : v.name \notin Range(IndexKeys))

applyVariant(slot, variants, props) ==
  VariantLoop(slot, ForIn(variants), props, 1, EmptyStyle)

\* props[condKey] of a plain object: undefined for a missing key.
PropValue(props, condKey) ==
  IF condKey \in DOMAIN props THEN props[condKey] ELSE Undef

\* A compound rule is [cond, css]: cond the conditions as an object, css a
\* mapping slot -> style.
IsMatch(cv, props) ==
  \A i \in 1..Len(cv.cond) :
     normalizeVariantValue(cv.cond[i][2])
       = normalizeVariantValue(PropValue(props, cv.cond[i][1]))

RECURSIVE CompoundLoop(_, _, _, _, _)
CompoundLoopFirstWins(slot, compoundVariants, props, i, style) ==
  IF i > Len(compoundVariants) THEN style
  ELSE LET cv == compoundVariants[i] IN
       IF IsMatch(cv, props) /\ slot \in DOMAIN cv.css
         THEN CompoundLoop(slot, compoundVariants, props, i + 1,
                           Merge(cv.css[slot], style))
         ELSE CompoundLoop(slot, compoundVariants, props, i + 1, style)

CompoundLoop(slot, compoundVariants, props, i, style) ==
  IF i > Len(compoundVariants) THEN style
  ELSE LET cv == compoundVariants[i] IN
       IF IsMatch(cv, props) /\ slot \in DOMAIN cv.css
         THEN CompoundLoop(slot, compoundVariants, props, i + 1,
                           Merge(style, cv.css[slot]))
         ELSE CompoundLoop(slot, compoundVariants, props, i + 1, style)

applyCompound(slot, compoundVariants, props) ==
  CompoundLoop(slot, compoundVariants, props, 1, EmptyStyle)

computeSlotStylesVariantLast(slot, base, variants, compoundVariants, props) ==
  Merge(Merge(IF slot \in DOMAIN base THEN base[slot] ELSE EmptyStyle,
              applyCompound(slot, compoundVariants, props)),
        applyVariant(slot, variants, props))

computeSlotStyles(slot, base, variants, compoundVariants, props) ==
  Merge(Merge(IF slot \in DOMAIN base THEN base[slot] ELSE EmptyStyle,
              applyVariant(slot, variants, props)),
        applyCompound(slot, compoundVariants, props))

(***************************************************************************)
(* Util expansion.  A util table maps a util name to its function; the     *)
(* function of the model is given by the property names it emits, each     *)
(* with the value the util received.  The expanders return the expanded    *)
(* style together with the number of util functions they invoked.          *)
(***************************************************************************)
\* key in utils: an own key of the table, or a member of Object.prototype.
KeyIn(key, utils) == key \in DOMAIN utils \/ key \in DOMAIN ObjectPrototype

\* utils[key](value) as Object.assign(result, expandedStyles) copies it.
\* For an inherited key the function called is the inherited member:
\* constructor is Object, and Object(value) of a number is a wrapper without
\* own enumerable properties.
utilFn(utils, key, value) ==
  IF key \in DOMAIN utils THEN [p \in Range(utils[key]) |-> value]
  ELSE EmptyStyle

RECURSIVE ExpandLoop(_, _, _, _)
ExpandLoopCopying(style, utils, i, acc) ==
  IF i > Len(style) THEN acc
  ELSE ExpandLoop(style, utils, i + 1,
         [out |-> Merge(acc.out, StyleObject(<<style[i]>>)),
          n |-> acc.n])

ExpandLoopDroppingPlain(style, utils, i, acc) ==
  IF i > Len(style) THEN acc
  ELSE IF style[i][1] \in DOMAIN utils
         THEN ExpandLoop(style, utils, i + 1,
                [out |-> Merge(acc.out,
                               utilFn(utils, style[i][1], style[i][2])),
                 n |-> acc.n + 1])
         ELSE ExpandLoop(style, utils, i + 1, acc)

ExpandLoopFirstWins(style, utils, i, acc) ==
  IF i > Len(style) THEN acc
  ELSE IF KeyIn(style[i][1], utils)
         THEN ExpandLoop(style, utils, i + 1,
                [out |-> Merge(utilFn(utils, style[i][1], style[i][2]),
                               acc.out),
                 n |-> acc.n + 1])
         ELSE ExpandLoop(style, utils, i + 1,
                [out |-> Merge(StyleObject(<<style[i]>>), acc.out),
                 n |-> acc.n])

ExpandLoop(style, utils, i, acc) ==
  IF i > Len(style) THEN acc
  ELSE LET key == style[i][1]
           value == style[i][2]
       IN  IF KeyIn(key, utils)
             THEN ExpandLoop(style, utils, i + 1,
                    [out |-> Merge(acc.out, utilFn(utils, key, value)),
                     n |-> acc.n + 1])
             ELSE ExpandLoop(style, utils, i + 1,
                    [out |-> Merge(acc.out, StyleObject(<<style[i]>>)),
                     n |-> acc.n])

expandUtils(style, utils) ==
  ExpandLoop(style, utils, 1, [out |-> EmptyStyle, n |-> 0])

\* The object expandUtils returns is enumerated (for...in, Object.keys) in
\* the order its keys were first assigned.
RECURSIVE AppendNew(_, _)
AppendNew(order, keys) ==
  IF keys = <<>> THEN order
  ELSE AppendNew(IF Head(keys) \in Range(order) THEN order
                 ELSE Append(order, Head(keys)),
                 Tail(keys))

RECURSIVE OrderLoop(_, _, _, _)
OrderLoop(style, utils, i, order) ==
  IF i > Len(style) THEN order
  ELSE OrderLoop(style, utils, i + 1,
         AppendNew(order, IF style[i][1] \in DOMAIN utils
                            THEN utils[style[i][1]]
                            ELSE IF KeyIn(style[i][1], utils) THEN <<>>
                            ELSE <<style[i][1]>>))

\* expandUtils(style, utils) as the object literal a second pass reads.
Enumerate(style, utils) ==
  LET result == expandUtils(style, utils).out
      order == SelectSeq(OrderLoop(style, utils, 1, <<>>),
                         LAMBDA k : k \in DOMAIN result)
  IN  [i \in 1..Len(order) |-> <<order[i], result[order[i]]>>]

RECURSIVE SumOver(_, _)
SumOver(f, S) ==
  IF S = {} THEN 0
  ELSE LET x == CHOOSE y \in S : TRUE IN f[x] + SumOver(f, S \ {x})

\* One slot -> style object, every style expanded.
ExpandSlots(slotStyles, utils) ==
  LET e == [slot \in DOMAIN slotStyles |-> expandUtils(slotStyles[slot], utils)]
  IN  [out |-> [slot \in DOMAIN e |-> e[slot].out],
       n |-> SumOver([slot \in DOMAIN e |-> e[slot].n], DOMAIN e)]

expandBaseUtils(base, utils) == ExpandSlots(base, utils)

ExpandValues(values, utils) ==
  LET e == [v \in DOMAIN values |-> ExpandSlots(values[v], utils)]
  IN  [out |-> [v \in DOMAIN e |-> e[v].out],
       n |-> SumOver([v \in DOMAIN e |-> e[v].n], DOMAIN e)]

expandVariantsUtils(variants, utils) ==
  LET e == [i \in 1..Len(variants) |-> ExpandValues(variants[i].values, utils)]
  IN  [out |-> [i \in 1..Len(variants) |->
                  [name |-> variants[i].name, values |-> e[i].out]],
       n |-> SumOver([i \in 1..Len(variants) |-> e[i].n], 1..Len(variants))]

expandCompoundUtilsSkipped(compoundVariants, utils) ==
  [out |-> [i \in 1..Len(compoundVariants) |->
              [cond |-> compoundVariants[i].cond,
               css |-> [slot \in DOMAIN compoundVariants[i].css |->
                          StyleObject(compoundVariants[i].css[slot])]]],
   n |-> 0]

expandCompoundUtils(compoundVariants, utils) ==
  LET e == [i \in 1..Len(compoundVariants) |->
              ExpandSlots(compoundVariants[i].css, utils)]
  IN  [out |-> [i \in 1..Len(compoundVariants) |->
                  [cond |-> compoundVariants[i].cond, css |-> e[i].out]],
       n |-> SumOver([i \in 1..Len(compoundVariants) |-> e[i].n],
                     1..Len(compoundVariants))]

(***************************************************************************)
(* The inputs of the model: util tables, configurations and selections.    *)
(***************************************************************************)
UtilsShorthand == [px |-> <<"paddingLeft", "paddingRight">>]

\* A util that shadows the style property of its own name.
UtilsShadowing ==
  [px |-> <<"paddingLeft", "paddingRight">>,
   padding |-> <<"padding", "margin">>]

UtilTables == {UtilsShorthand, UtilsShadowing}

\* A util whose output names another util of the table.
UtilsChained == [px |-> <<"padding">>, padding |-> <<"margin">>]

ExpandTables == UtilTables \cup {UtilsChained}

\* The style objects handed to expandUtils alone: up to MaxStyleKeys
\* distinct keys, util names and style properties, in any order.
StyleKeys == {"px", "padding", "margin", "paddingLeft"}
StyleValues == {1, 2}

StylesOfLen(n) ==
  {style \in [1..n -> StyleKeys \X StyleValues] :
     \A i, j \in 1..n : style[i][1] = style[j][1] => i = j}

StyleInputs == UNION {StylesOfLen(n) : n \in 0..MaxStyleKeys}

CfgButton ==
  [slots |-> <<"root", "label">>,
   base |-> [root |-> << <<"padding", 8>>, <<"px", 10>> >>,
             label |-> << <<"padding", 2>> >>],
   variants |->
     << [name |-> "size",
         values |-> [sm |-> [root |-> << <<"padding", 4>> >>],
                     lg |-> [root |-> << <<"padding", 16>> >>,
                             label |-> << <<"px", 6>> >>]]],
        [name |-> "big",
         values |-> ("true" :> [root |-> << <<"padding", 24>> >>]
                     @@ "false" :> [root |-> << <<"paddingLeft", 1>> >>]
                     @@ "true;size:lg" :> [root |-> << <<"padding", 99>> >>])] >>,
   defaultVariants |-> << <<"size", Str("sm")>> >>,
   compoundVariants |->
     << [cond |-> << <<"big", Bool(TRUE)>> >>,
         css |-> [root |-> << <<"padding", 32>> >>]],
        [cond |-> << <<"size", Str("lg")>>, <<"big", Bool(TRUE)>> >>,
         css |-> [root |-> << <<"px", 3>> >>,
                  label |-> << <<"padding", 40>> >>]] >>]

\* No base, no compound rules, a boolean variant that defaults to true.
CfgToggle ==
  [slots |-> <<"root">>,
   base |-> <<>>,
   variants |->
     << [name |-> "big",
         values |-> ("true" :> [root |-> << <<"px", 5>> >>]
                     @@ "false" :> [root |-> << <<"padding", 0>> >>])] >>,
   defaultVariants |-> << <<"big", Bool(TRUE)>> >>,
   compoundVariants |-> <<>>]

\* A slot called name, as of a card that shows a name.
CfgCard ==
  [slots |-> <<"name">>,
   base |-> [name |-> << <<"padding", 8>> >>],
   variants |->
     << [name |-> "size",
         values |-> [sm |-> [name |-> << <<"padding", 4>> >>],
                     lg |-> [other |-> << <<"padding", 16>> >>]]] >>,
   defaultVariants |-> << <<"size", Str("sm")>> >>,
   compoundVariants |->
     << [cond |-> << <<"size", Str("lg")>> >>,
         css |-> [other |-> << <<"margin", 1>> >>]] >>]

\* Two variants that set the same property of the same slot, the defaults
\* written in the other order.
CfgOrdered ==
  [slots |-> <<"root">>,
   base |-> [root |-> << <<"padding", 8>> >>],
   variants |->
     << [name |-> "size",
         values |-> [sm |-> [root |-> << <<"padding", 4>> >>],
                     lg |-> [root |-> << <<"margin", 2>> >>]]],
        [name |-> "tone",
         values |-> [loud |-> [root |-> << <<"padding", 9>> >>]]] >>,
   defaultVariants |-> << <<"tone", Str("loud")>>, <<"size", Str("sm")>> >>,
   compoundVariants |-> <<>>]

\* The same, the second variant named by a number.
CfgNumbered ==
  [slots |-> <<"root">>,
   base |-> <<>>,
   variants |->
     << [name |-> "size",
         values |-> [sm |-> [root |-> << <<"padding", 4>> >>]]],
        [name |-> "2",
         values |-> [on |-> [root |-> << <<"padding", 9>> >>]]] >>,
   defaultVariants |-> <<>>,
   compoundVariants |-> <<>>]

OrderedConfigs == {CfgOrdered, CfgNumbered}

\* Compound rules: one without conditions, one a default satisfies alone,
\* two that overwrite an earlier match, a condition written as a string for
\* a boolean variant, and two on a variant that has no default, requiring
\* undefined and "undefined".
CfgCompound ==
  [slots |-> <<"root">>,
   base |-> [root |-> << <<"padding", 8>> >>],
   variants |->
     << [name |-> "size",
         values |-> [sm |-> [root |-> << <<"padding", 4>> >>],
                     lg |-> [root |-> << <<"padding", 16>> >>]]],
        [name |-> "big",
         values |-> ("true" :> [root |-> << <<"paddingLeft", 1>> >>]
                     @@ "false" :> [root |-> << <<"paddingLeft", 0>> >>])] >>,
   defaultVariants |-> << <<"size", Str("sm")>> >>,
   compoundVariants |->
     << [cond |-> <<>>,
         css |-> [root |-> << <<"margin", 1>> >>]],
        [cond |-> << <<"size", Str("sm")>> >>,
         css |-> [root |-> << <<"margin", 2>>, <<"padding", 5>> >>]],
        [cond |-> << <<"size", Str("sm")>>, <<"big", Bool(TRUE)>> >>,
         css |-> [root |-> << <<"padding", 6>> >>]],
        [cond |-> << <<"big", Str("true")>> >>,
         css |-> [root |-> << <<"paddingLeft", 7>> >>]],
        [cond |-> << <<"size", Str("lg")>> >>,
         css |-> [root |-> << <<"margin", 3>> >>]],
        [cond |-> << <<"big", Undef>> >>,
         css |-> [root |-> << <<"paddingRight", 9>> >>]],
        [cond |-> << <<"size", Str("lg")>>, <<"big", Str("undefined")>> >>,
         css |-> [root |-> << <<"paddingRight", 10>> >>]] >>]

CompoundConfigs == {CfgCompound}

\* Configurations without the optional parts: slots alone, and slots with
\* a base, a variant and a compound rule that style a slot the list does
\* not declare and leave a declared one without any style.
CfgBare == [slots |-> <<"root", "label">>]

CfgGhost ==
  [slots |-> <<"root", "icon">>,
   base |-> [root |-> << <<"padding", 8>> >>,
             ghost |-> << <<"margin", 1>> >>],
   variants |->
     << [name |-> "size",
         values |-> [sm |-> [ghost |-> << <<"padding", 4>> >>],
                     lg |-> [root |-> << <<"padding", 16>> >>,
                             ghost |-> << <<"padding", 5>> >>]]] >>,
   compoundVariants |->
     << [cond |-> << <<"size", Str("lg")>> >>,
         css |-> [ghost |-> << <<"margin", 2>> >>]] >>]

CfgDefaultsOnly ==
  [slots |-> <<"root">>,
   defaultVariants |-> << <<"size", Str("sm")>> >>]

SlotConfigs == {CfgBare, CfgGhost, CfgDefaultsOnly}

\* What styled of the plain module is called with.
PlainConfigs == {CfgButton}

\* What styled of the factory is called with: a configuration object, or a
\* function (defineConfig, theme) -> configuration.
FactoryInputs ==
  {[isFunction |-> FALSE, config |-> CfgButton, reads |-> <<>>],
   [isFunction |-> TRUE, config |-> CfgToggle, reads |-> <<>>]}

CacheFactoryInputs ==
  {[isFunction |-> FALSE, config |-> CfgButton, reads |-> <<>>]}

\* A factory function that takes two colours from the theme.
ThemedInputs ==
  {[isFunction |-> TRUE, config |-> CfgToggle,
    reads |-> << <<"color", "primary">>, <<"borderColor", "black">> >>],
   [isFunction |-> FALSE, config |-> CfgToggle, reads |-> <<>>]}

\* defaultTokens.palette, two of its names.
Palette == [black |-> "#000000", white |-> "#FFFFFF"]

\* options.theme: absent, or a default and a dark colour scheme.
NoTheme == [given |-> FALSE, default |-> <<>>, dark |-> <<>>]

ThemeInputs ==
  {NoTheme,
   [given |-> TRUE,
    default |-> [primary |-> "#3b82f6"],
    dark |-> [primary |-> "#60a5fa"]],
   [given |-> TRUE,
    default |-> [primary |-> "#3b82f6"],
    dark |-> [primary |-> "#FFFFFF"]],
   [given |-> TRUE,
    default |-> [primary |-> "#3b82f6", black |-> "#111111"],
    dark |-> [primary |-> "#60a5fa", black |-> "#eeeeee"]]}

\* { ...defaultTokens.palette, ...userColors }
MergedColorsPaletteWins(palette, userColors) == Merge(userColors, palette)

MergedColors(palette, userColors) == Merge(palette, userColors)

\* createNVA: userColors, mergedColors, resolvedTheme (its colours; the
\* other token tables are the built-in ones whatever the options).
ResolveTheme(theme) ==
  LET userColors == IF theme.given THEN theme.default ELSE <<>>
  IN  [colors |-> MergedColors(Palette, userColors)]

NoProps == [given |-> FALSE, kv |-> <<>>]
Props(kv) == [given |-> TRUE, kv |-> kv]

PropsSet ==
  {NoProps,
   Props(<<>>),
   Props(<< <<"size", Undef>> >>),
   Props(<< <<"size", Str("sm")>> >>),
   Props(<< <<"size", Str("xl")>> >>),
   Props(<< <<"big", Bool(TRUE)>> >>),
   Props(<< <<"big", Bool(FALSE)>> >>),
   Props(<< <<"size", Str("lg")>>, <<"big", Bool(TRUE)>> >>),
   Props(<< <<"big", Str("true;size:lg")>> >>)}

CacheProps ==
  {NoProps,
   Props(<< <<"size", Str("sm")>> >>),
   Props(<< <<"size", Str("lg")>>, <<"big", Bool(TRUE)>> >>),
   Props(<< <<"big", Str("true;size:lg")>> >>)}

\* Selections that do not fit the variant table: a variant name the table
\* does not declare, values it does not declare, and a value whose entry
\* and compound patch have no style for the slot.
MalformedConfigs == {CfgCard}

MalformedProps ==
  {Props(<< <<"size", Str("sm")>> >>),
   Props(<< <<"tone", Str("loud")>> >>),
   Props(<< <<"size", Str("xl")>> >>),
   Props(<< <<"size", Str("lg")>> >>),
   Props(<< <<"size", Str("constructor")>> >>),
   Props(<< <<"size", Str("sm")>>, <<"tone", Str("loud")>> >>)}

\* The selections of the resolvers declared with a theme.
ThemeProps ==
  {NoProps,
   Props(<< <<"big", Bool(TRUE)>> >>),
   Props(<< <<"big", Bool(FALSE)>> >>)}

\* The selections of the resolvers with compound rules.
CompoundProps ==
  {NoProps,
   Props(<< <<"size", Undef>> >>),
   Props(<< <<"size", Str("lg")>> >>),
   Props(<< <<"big", Bool(TRUE)>> >>),
   Props(<< <<"big", Str("true")>> >>),
   Props(<< <<"big", Undef>> >>),
   Props(<< <<"size", Str("sm")>>, <<"big", Bool(FALSE)>> >>),
   Props(<< <<"size", Str("lg")>>, <<"big", Bool(TRUE)>> >>)}

\* The selections of the resolvers of SlotConfigs.
SlotProps ==
  {NoProps,
   Props(<< <<"size", Str("sm")>> >>),
   Props(<< <<"size", Str("lg")>> >>),
   Props(<< <<"tone", Str("loud")>> >>)}

\* Selections of two variants in both key orders.
OrderedProps ==
  {NoProps,
   Props(<< <<"size", Str("lg")>> >>),
   Props(<< <<"size", Str("sm")>>, <<"tone", Str("loud")>> >>),
   Props(<< <<"tone", Str("loud")>>, <<"size", Str("sm")>> >>),
   Props(<< <<"size", Str("sm")>>, <<"2", Str("on")>> >>),
   Props(<< <<"2", Str("on")>>, <<"size", Str("sm")>> >>)}

\* The same defined pairs written in different key orders, with and
\* without keys that are undefined.
KeyOrderProps ==
  {NoProps,
   Props(<<>>),
   Props(<< <<"size", Undef>> >>),
   Props(<< <<"big", Bool(TRUE)>> >>),
   Props(<< <<"size", Undef>>, <<"big", Bool(TRUE)>> >>),
   Props(<< <<"size", Str("lg")>>, <<"big", Bool(TRUE)>> >>),
   Props(<< <<"big", Bool(TRUE)>>, <<"size", Str("lg")>> >>),
   Props(<< <<"tone", Undef>>, <<"size", Str("lg")>>, <<"big", Bool(TRUE)>> >>)}

(***************************************************************************)
(* Declaring a resolver.                                                   *)
(***************************************************************************)
\* const configRef = { config } / { id: Symbol() }: a fresh object per call
\* of styled, identified by the number of the resolver it belongs to.
SharedConfigRef(rs) == 0

NewConfigRef(rs) == Len(rs) + 1

\* A resolver keeps what styled has built: source is the configuration as it
\* was declared, frozenSlots and frozenCompoundVariants are the copies
\* Object.freeze([...array]) has made.  arrays are the slots array and the
\* compoundVariants array of the caller's configuration object as they are
\* now, mutations counts the changes the caller has made to them since the
\* declaration and mutatedAt is the number of calls made before the latest.
\* styled(config) of the plain module: the configuration is used as written.
\* The optional parts of a configuration: base = {}, variants = {},
\* defaultVariants = {}, compoundVariants = [] when the configuration has no
\* such property (and if (!base) return {} of the expanders).
OrEmpty(config, part) == IF part \in DOMAIN config THEN config[part] ELSE <<>>

DeclareStyled(config, maxResolvers) ==
  LET base == OrEmpty(config, "base")
      variants == OrEmpty(config, "variants")
      defaultVariants == OrEmpty(config, "defaultVariants")
      compoundVariants == OrEmpty(config, "compoundVariants")
  IN
  /\ Len(resolvers) < maxResolvers
  /\ resolvers' = Append(resolvers,
       [kind |-> "styled",
        configRef |-> NewConfigRef(resolvers),
        source |-> config,
        arrays |-> [slots |-> config.slots,
                    compoundVariants |-> compoundVariants],
        mutations |-> 0,
        mutatedAt |-> 0,
        frozenSlots |-> config.slots,
        base |-> [slot \in DOMAIN base |-> StyleObject(base[slot])],
        variants |-> [i \in 1..Len(variants) |->
           [name |-> variants[i].name,
            values |-> [v \in DOMAIN variants[i].values |->
               [slot \in DOMAIN variants[i].values[v] |->
                  StyleObject(variants[i].values[v][slot])]]]],
        frozenCompoundVariants |-> [i \in 1..Len(compoundVariants) |->
           [cond |-> compoundVariants[i].cond,
            css |-> [slot \in DOMAIN compoundVariants[i].css |->
                       StyleObject(compoundVariants[i].css[slot])]]],
        defaultVariants |-> defaultVariants])
  /\ UNCHANGED <<inputUtils, styleCache, instanceCache, nextId, utilCalls,
                 factoryCalls, calls, last, returned, primitiveCache,
                 cleared, outside>>

\* theme.colors[name] as a factory function reads it.
ThemeColor(theme, name) ==
  IF name \in DOMAIN theme.colors THEN theme.colors[name] ELSE "undefined"

\* configOrFactory(defineConfig, resolvedTheme): the function form returns
\* its configuration with, in the base of its first slot, the properties it
\* reads from the colours of the theme.
ApplyFactory(configOrFactory, theme) ==
  LET config == configOrFactory.config
      slot == config.slots[1]
      themed == [i \in 1..Len(configOrFactory.reads) |->
                   <<configOrFactory.reads[i][1],
                     ThemeColor(theme, configOrFactory.reads[i][2])>>]
  IN  IF configOrFactory.reads = <<>> THEN config
      ELSE [config EXCEPT
              !.base = [sl \in DOMAIN config.base \cup {slot} |->
                          (IF sl \in DOMAIN config.base
                             THEN config.base[sl] ELSE <<>>)
                          \o (IF sl = slot THEN themed ELSE <<>>)]]

\* createNVA(...).styled(configOrFactory): utils are expanded here.
DeclareFactoryStyled(configOrFactory, maxResolvers) ==
  LET configWithUtils == IF configOrFactory.isFunction
                           THEN ApplyFactory(configOrFactory, resolvedTheme)
                           ELSE configOrFactory.config
      base == expandBaseUtils(OrEmpty(configWithUtils, "base"), inputUtils)
      variants ==
        expandVariantsUtils(OrEmpty(configWithUtils, "variants"), inputUtils)
      compoundVariants ==
        expandCompoundUtils(OrEmpty(configWithUtils, "compoundVariants"),
                            inputUtils)
  IN  /\ Len(resolvers) < maxResolvers
      /\ resolvers' = Append(resolvers,
           [kind |-> "factory",
            configRef |-> NewConfigRef(resolvers),
            source |-> configWithUtils,
            arrays |-> [slots |-> configWithUtils.slots,
                        compoundVariants |->
                          OrEmpty(configWithUtils, "compoundVariants")],
            mutations |-> 0,
            mutatedAt |-> 0,
            frozenSlots |-> configWithUtils.slots,
            base |-> base.out,
            variants |-> variants.out,
            frozenCompoundVariants |-> compoundVariants.out,
            defaultVariants |-> OrEmpty(configWithUtils, "defaultVariants"),
            handed |-> IF configOrFactory.isFunction
                         THEN <<resolvedTheme>> ELSE <<>>])
      /\ utilCalls' = utilCalls + base.n + variants.n + compoundVariants.n
      /\ factoryCalls' = factoryCalls
                           + (IF configOrFactory.isFunction THEN 1 ELSE 0)
      /\ UNCHANGED <<inputUtils, styleCache, instanceCache, nextId, calls, last,
                     returned, primitiveCache, cleared, outside>>

(***************************************************************************)
(* A call of a resolver: computeStyles(props).                             *)
(***************************************************************************)
IsTruthy(value) == value # Undef /\ value # Bool(FALSE) /\ value # Str("")

\* value !== undefined
IsDefined(value) == value # Undef

\* { ...defaultVariants } overlaid by the defined own keys of props.
ResolveProps(defaultVariants, props) ==
  LET defined == {k \in Range(Keys(props.kv)) : IsDefined(Get(props.kv, k))}
  IN  Merge(StyleObject(defaultVariants),
            [k \in defined |-> Get(props.kv, k)])

\* The cache that holds the partitions of a resolver of this kind.
CacheOfPlainModule(kind) == styleCache

CacheOf(kind) == IF kind = "styled" THEN styleCache ELSE instanceCache

\* The partition of a resolver: cache.get(configRef), empty when undefined.
Partition(r) ==
  LET cache == CacheOf(resolvers[r].kind)
  IN  IF resolvers[r].configRef \in DOMAIN cache
        THEN cache[resolvers[r].configRef]
        ELSE <<>>

\* configCache?.has(cacheKey)
AlwaysMiss(configCache, cacheKey) == FALSE

Has(configCache, cacheKey) == cacheKey \in DOMAIN configCache

\* configCache.set(cacheKey, result)
MapSet(map, key, value) ==
  [k \in DOMAIN map \cup {key} |-> IF k = key THEN value ELSE map[k]]

\* returned records, for every resolver and selection already called, the
\* identity of the object the first such call returned; last is the latest
\* call: resolver, argument, key, hit or miss, the resolved selection of the
\* call and the object returned.

\* The result object of a miss: the style of every declared slot.  id is
\* the identity of the new object; by and eff record the resolver and the
\* resolved selection it was computed for.
FrozenSlotsAliased(res) == res.arrays.slots

FrozenSlotsStyled(res) ==
  SelectSeq(res.frozenSlots, LAMBDA slot : slot \in DOMAIN res.base)

\* frozenSlots, the copy [...slots] made at declaration.
FrozenSlotsOf(res) == res.frozenSlots

ComputeResult(r, resolvedProps) ==
  LET res == resolvers[r]
  IN  [id |-> nextId,
       value |-> [slot \in Range(FrozenSlotsOf(res)) |->
                    computeSlotStyles(slot, res.base, res.variants,
                                      res.frozenCompoundVariants,
                                      resolvedProps)],
       by |-> r,
       eff |-> resolvedProps]

Call(r, props, maxCalls) ==
  LET res == resolvers[r]
      cacheKey == createCacheKey(props)
      configCache == Partition(r)
      resolvedProps == ResolveProps(res.defaultVariants, props)
      result == ComputeResult(r, resolvedProps)
      stored == MapSet(CacheOf(res.kind), res.configRef,
                       MapSet(configCache, cacheKey, result))
  IN  /\ calls < maxCalls
      /\ calls' = calls + 1
      /\ IF Has(configCache, cacheKey)
           THEN /\ last' = [r |-> r, props |-> props, key |-> cacheKey,
                            hit |-> TRUE, eff |-> resolvedProps,
                            obj |-> configCache[cacheKey]]
                /\ UNCHANGED <<styleCache, instanceCache, nextId>>
           ELSE /\ last' = [r |-> r, props |-> props, key |-> cacheKey,
                            hit |-> FALSE, eff |-> resolvedProps,
                            obj |-> result]
                /\ nextId' = nextId + 1
                /\ IF res.kind = "styled"
                     THEN styleCache' = stored /\ UNCHANGED instanceCache
                     ELSE instanceCache' = stored /\ UNCHANGED styleCache
      /\ returned' = IF <<r, props>> \in DOMAIN returned THEN returned
                      ELSE MapSet(returned, <<r, props>>, last'.obj.id)
      /\ cleared' = FALSE
      /\ UNCHANGED <<inputUtils, resolvers, utilCalls, factoryCalls,
                     primitiveCache, outside>>

(***************************************************************************)
(* clearStyleCache(): primitiveCache.clear().  primitiveCache is a module  *)
(* Map no resolver reads or writes; styleCache and every instanceCache are *)
(* left as they are.  cleared records that clearStyleCache has returned    *)
(* and no resolver has been called since.                                  *)
(***************************************************************************)
\* map.clear()
MapClear(map) == <<>>

clearStyleCache ==
  /\ primitiveCache' = MapClear(primitiveCache)
  /\ cleared' = TRUE
  /\ UNCHANGED <<inputUtils, resolvers, styleCache, instanceCache, nextId,
                 utilCalls, factoryCalls, calls, last, returned, outside>>

(***************************************************************************)
(* The specification.  The factory is created before the first step, with  *)
(* one of the util tables.                                                 *)
(***************************************************************************)
NoObject == [id |-> 0, value |-> <<>>, by |-> 0, eff |-> <<>>]

\* No resolver declared, no call made.
InitResolvers ==
  /\ resolvers = <<>>
  /\ styleCache = <<>>
  /\ instanceCache = <<>>
  /\ nextId = 1
  /\ utilCalls = 0
  /\ factoryCalls = 0
  /\ calls = 0
  /\ last = [r |-> 0, props |-> NoProps, key |-> "", hit |-> FALSE,
             eff |-> <<>>, obj |-> NoObject]
  /\ returned = <<>>
  /\ primitiveCache = <<>>
  /\ cleared = FALSE

InitRace ==
  /\ pending = <<>>
  /\ mapIds = <<>>

\* createNVA(options) with the theme option theme.
InitTheme(theme) ==
  /\ inputTheme = theme
  /\ resolvedTheme = ResolveTheme(theme)

\* No ThemeProvider is rendered.
NoValue == [colorScheme |-> "light", mode |-> "system", isDark |-> FALSE,
            colors |-> <<>>]

NoView == [mode |-> "system", systemScheme |-> "null", isHydrated |-> FALSE,
           deps |-> <<>>, value |-> NoValue, children |-> FALSE]

InitProvider(p, a, s) ==
  /\ providerProps = p
  /\ appearance = a
  /\ storage = s
  /\ lifecycle = "unmounted"
  /\ mode = "system"
  /\ systemScheme = "null"
  /\ isHydrated = FALSE
  /\ subscribed = FALSE
  /\ read = "none"
  /\ view = NoView
  /\ persisted = <<>>
  /\ requests = <<>>

NoProvider ==
  InitProvider([defaultMode |-> "system", hasGet |-> FALSE, hasSet |-> FALSE,
                colors |-> [default |-> <<>>, dark |-> <<>>]],
               "null", "null")

NoExpansion == [phase |-> "none", style |-> <<>>, once |-> <<>>,
                twice |-> EmptyStyle]

\* cn and alpha have not been called.
NoMerging == [phase |-> "none", styles |-> <<>>, result |-> <<>>]

NoColour == [phase |-> "none", hex |-> <<>>, opacity |-> 0, threw |-> FALSE,
             result |-> <<>>]

NoHelpers ==
  /\ merging = NoMerging
  /\ colour = NoColour

Init ==
  /\ inputUtils \in UtilTables
  /\ InitResolvers
  /\ InitRace
  /\ InitTheme(NoTheme)
  /\ expansion = NoExpansion
  /\ NoHelpers
  /\ NoProvider

Next ==
  \/ \E config \in PlainConfigs : DeclareStyled(config, MaxResolvers)
  \/ \E configOrFactory \in CacheFactoryInputs :
       DeclareFactoryStyled(configOrFactory, MaxResolvers)
  \/ \E r \in 1..Len(resolvers) : \E props \in CacheProps :
       Call(r, props, MaxCalls)
  \/ clearStyleCache

Spec == Init /\ [][Next]_vars

NextResolve ==
  \/ \E config \in PlainConfigs : DeclareStyled(config, MaxDeclared)
  \/ \E configOrFactory \in FactoryInputs :
       DeclareFactoryStyled(configOrFactory, MaxDeclared)
  \/ \E r \in 1..Len(resolvers) : \E props \in PropsSet :
       Call(r, props, MaxResolved)
  \/ clearStyleCache

SpecResolve == Init /\ [][NextResolve]_vars

\* Resolvers called with selections that do not fit their variant table.
NextMalformed ==
  \/ \E config \in MalformedConfigs : DeclareStyled(config, MaxDeclared)
  \/ \E config \in MalformedConfigs :
       DeclareFactoryStyled([isFunction |-> FALSE, config |-> config,
                             reads |-> <<>>],
                            MaxDeclared)
  \/ \E r \in 1..Len(resolvers) : \E props \in MalformedProps :
       Call(r, props, MaxResolved)

SpecMalformed == Init /\ [][NextMalformed]_vars

\* Resolvers called with reordered selections.
NextKeyOrder ==
  \/ \E config \in PlainConfigs : DeclareStyled(config, MaxDeclared)
  \/ \E configOrFactory \in CacheFactoryInputs :
       DeclareFactoryStyled(configOrFactory, MaxDeclared)
  \/ \E r \in 1..Len(resolvers) : \E props \in KeyOrderProps :
       Call(r, props, MaxResolved)

SpecKeyOrder == Init /\ [][NextKeyOrder]_vars

\* Resolvers of configurations whose variants set the same property.
NextOrdered ==
  \/ \E config \in OrderedConfigs : DeclareStyled(config, MaxDeclared)
  \/ \E config \in OrderedConfigs :
       DeclareFactoryStyled([isFunction |-> FALSE, config |-> config,
                             reads |-> <<>>],
                            MaxDeclared)
  \/ \E r \in 1..Len(resolvers) : \E props \in OrderedProps :
       Call(r, props, MaxResolved)

SpecOrdered == Init /\ [][NextOrdered]_vars

\* Resolvers of configurations with compound rules.
NextCompound ==
  \/ \E config \in CompoundConfigs : DeclareStyled(config, MaxDeclared)
  \/ \E config \in CompoundConfigs :
       DeclareFactoryStyled([isFunction |-> FALSE, config |-> config,
                             reads |-> <<>>],
                            MaxDeclared)
  \/ \E r \in 1..Len(resolvers) : \E props \in CompoundProps :
       Call(r, props, MaxResolved)

SpecCompound == Init /\ [][NextCompound]_vars

\* Resolvers of configurations that lack optional parts.
NextSlots ==
  \/ \E config \in SlotConfigs : DeclareStyled(config, MaxDeclared)
  \/ \E config \in SlotConfigs :
       DeclareFactoryStyled([isFunction |-> FALSE, config |-> config,
                             reads |-> <<>>],
                            MaxDeclared)
  \/ \E r \in 1..Len(resolvers) : \E props \in SlotProps :
       Call(r, props, MaxResolved)

SpecSlots == Init /\ [][NextSlots]_vars

(***************************************************************************)
(* The caller changes the arrays of a configuration it has declared.       *)
(***************************************************************************)
MaxMutations == 1

Reverse(seq) == [i \in 1..Len(seq) |-> seq[Len(seq) + 1 - i]]

\* array.push(x), array.pop(), array.reverse() on the slots array and on
\* the compoundVariants array.
ArrayMutations == {"push", "pop", "reverse"}

Mutated(array, how, x) ==
  CASE how = "push" -> Append(array, x)
    [] how = "pop" -> SubSeq(array, 1, Len(array) - 1)
    [] OTHER -> Reverse(array)

\* The changes made so far, over all resolvers.
MutationsMade ==
  SumOver([i \in 1..Len(resolvers) |-> resolvers[i].mutations],
          1..Len(resolvers))

\* The selections the resolvers are called with around a change.
MutateProps ==
  {Props(<< <<"size", Str("sm")>> >>),
   Props(<< <<"size", Str("lg")>>, <<"big", Bool(TRUE)>> >>)}

ExtraRule == [cond |-> <<>>, css |-> [root |-> << <<"padding", 77>> >>]]

MutateSlots(r, how) ==
  /\ MutationsMade < MaxMutations
  /\ resolvers' = [resolvers EXCEPT
       ![r].arrays.slots = Mutated(@, how, "label"),
       ![r].mutations = @ + 1,
       ![r].mutatedAt = calls]
  /\ UNCHANGED <<inputUtils, styleCache, instanceCache, nextId, utilCalls,
                 factoryCalls, calls, last, returned, primitiveCache,
                 cleared, outside>>

MutateCompoundVariants(r, how) ==
  /\ MutationsMade < MaxMutations
  /\ resolvers' = [resolvers EXCEPT
       ![r].arrays.compoundVariants = Mutated(@, how, ExtraRule),
       ![r].mutations = @ + 1,
       ![r].mutatedAt = calls]
  /\ UNCHANGED <<inputUtils, styleCache, instanceCache, nextId, utilCalls,
                 factoryCalls, calls, last, returned, primitiveCache,
                 cleared, outside>>

NextMutate ==
  \/ \E config \in PlainConfigs : DeclareStyled(config, MaxDeclared)
  \/ \E configOrFactory \in CacheFactoryInputs :
       DeclareFactoryStyled(configOrFactory, MaxDeclared)
  \/ \E r \in 1..Len(resolvers) : \E props \in MutateProps :
       Call(r, props, MaxResolved)
  \/ \E r \in 1..Len(resolvers) : \E how \in ArrayMutations :
       MutateSlots(r, how)
  \/ \E r \in 1..Len(resolvers) : \E how \in ArrayMutations :
       MutateCompoundVariants(r, how)

\* One factory, created with the util table that shadows a style property.
InitMutate ==
  /\ inputUtils = UtilsShadowing
  /\ InitResolvers
  /\ InitRace
  /\ InitTheme(NoTheme)
  /\ expansion = NoExpansion
  /\ NoHelpers
  /\ NoProvider

SpecMutate == InitMutate /\ [][NextMutate]_vars

(***************************************************************************)
(* The same configuration declared twice: with styled of the plain module  *)
(* and with styled of a factory that createNVA() has made without utils,   *)
(* so that inputUtils is the {} of options?.utils ?? {}.  Every selection  *)
(* is passed to one of the two resolvers and then to the other.            *)
(***************************************************************************)
\* The number of selections passed to both resolvers.
MaxPairs == 2

EmptyUtils == <<>>

TwinConfigs == {CfgButton, CfgCompound, CfgGhost, CfgCard, CfgNumbered}

TwinProps ==
  {NoProps,
   Props(<< <<"size", Str("lg")>> >>),
   Props(<< <<"size", Str("constructor")>> >>),
   Props(<< <<"big", Bool(TRUE)>> >>),
   Props(<< <<"big", Str("true")>> >>),
   Props(<< <<"big", Undef>> >>),
   Props(<< <<"size", Str("lg")>>, <<"big", Bool(TRUE)>> >>),
   Props(<< <<"2", Str("on")>>, <<"size", Str("sm")>> >>)}

\* No resolver of this kind is declared yet, and the one of the other kind
\* was declared with the same configuration.
TwinOf(kind, config) ==
  \A r \in 1..Len(resolvers) :
    resolvers[r].kind # kind /\ resolvers[r].source = config

\* Both resolvers are declared; the first call of a pair is any selection
\* on either resolver, the second is the same selection on the other.
TwinCall(r, props) ==
  /\ Len(resolvers) = 2
  /\ calls % 2 = 1 => r # last.r /\ props = last.props
  /\ Call(r, props, 2 * MaxPairs)

InitTwin ==
  /\ inputUtils = EmptyUtils
  /\ InitResolvers
  /\ InitRace
  /\ InitTheme(NoTheme)
  /\ expansion = NoExpansion
  /\ NoHelpers
  /\ NoProvider

NextTwin ==
  \/ \E config \in TwinConfigs :
       TwinOf("styled", config) /\ DeclareStyled(config, MaxResolvers)
  \/ \E config \in TwinConfigs :
       /\ TwinOf("factory", config)
       /\ DeclareFactoryStyled([isFunction |-> FALSE, config |-> config,
                                reads |-> <<>>],
                               MaxResolvers)
  \/ \E r \in 1..Len(resolvers) : \E props \in TwinProps : TwinCall(r, props)

SpecTwin == InitTwin /\ [][NextTwin]_vars

\* Factories created with a theme option, resolvers declared through
\* factory functions that read the theme.
InitThemed ==
  /\ inputUtils \in UtilTables
  /\ InitResolvers
  /\ InitRace
  /\ \E theme \in ThemeInputs : InitTheme(theme)
  /\ expansion = NoExpansion
  /\ NoHelpers
  /\ NoProvider

NextThemed ==
  \/ \E configOrFactory \in ThemedInputs :
       DeclareFactoryStyled(configOrFactory, MaxDeclared)
  \/ \E r \in 1..Len(resolvers) : \E props \in ThemeProps :
       Call(r, props, MaxResolved)

SpecThemed == InitThemed /\ [][NextThemed]_vars

(***************************************************************************)
(* Interleaved calls.  computeStyles runs to completion in the origin; a   *)
(* host that interleaves invocations can switch between the lookup and the *)
(* store of one.  Begin is computeStyles up to the result, Finish is its   *)
(* store and return.  An invocation in flight keeps what its locals hold:  *)
(* cacheKey, result, and configCache, the Map it read from the cache       *)
(* (map, 0 for undefined).  mapIds gives, per configRef, the identity of   *)
(* the Map the cache holds now.                                            *)
(***************************************************************************)
MapIdOf(configRef) ==
  IF configRef \in DOMAIN mapIds THEN mapIds[configRef] ELSE 0

RemoveAt(seq, i) == SubSeq(seq, 1, i - 1) \o SubSeq(seq, i + 1, Len(seq))

RaceProps ==
  {Props(<< <<"size", Str("sm")>> >>),
   Props(<< <<"size", Str("lg")>>, <<"big", Bool(TRUE)>> >>),
   Props(<< <<"big", Str("true;size:lg")>> >>)}

Begin(r, props, maxCalls) ==
  LET res == resolvers[r]
      cacheKey == createCacheKey(props)
      configCache == Partition(r)
      resolvedProps == ResolveProps(res.defaultVariants, props)
      result == ComputeResult(r, resolvedProps)
  IN  /\ calls < maxCalls
      /\ calls' = calls + 1
      /\ IF Has(configCache, cacheKey)
           THEN /\ last' = [r |-> r, props |-> props, key |-> cacheKey,
                            hit |-> TRUE, eff |-> resolvedProps,
                            obj |-> configCache[cacheKey]]
                /\ returned' = IF <<r, props>> \in DOMAIN returned
                                 THEN returned
                                 ELSE MapSet(returned, <<r, props>>,
                                             configCache[cacheKey].id)
                /\ UNCHANGED <<nextId, pending>>
           ELSE /\ pending' = Append(pending,
                     [r |-> r, props |-> props, key |-> cacheKey,
                      eff |-> resolvedProps, obj |-> result,
                      map |-> MapIdOf(res.configRef)])
                /\ nextId' = nextId + 1
                /\ UNCHANGED <<last, returned>>
      /\ cleared' = FALSE
      /\ UNCHANGED <<inputUtils, resolvers, styleCache, instanceCache,
                     utilCalls, factoryCalls, primitiveCache, mapIds,
                     expansion, helperVars, themeVars, providerVars>>

\* if (!configCache) { configCache = new Map(); cache.set(configRef,
\* configCache) }; configCache.set(cacheKey, result); return result.  A Map
\* the cache no longer holds takes the entry with it.
Finish(i) ==
  LET p == pending[i]
      res == resolvers[p.r]
      current == MapIdOf(res.configRef)
      configCache ==
        IF p.map = 0 THEN MapSet(<<>>, p.key, p.obj)
        ELSE IF p.map = current THEN MapSet(Partition(p.r), p.key, p.obj)
        ELSE Partition(p.r)
      stored == MapSet(CacheOf(res.kind), res.configRef, configCache)
  IN  /\ pending' = RemoveAt(pending, i)
      /\ mapIds' = IF p.map = 0
                     THEN MapSet(mapIds, res.configRef, current + 1)
                     ELSE mapIds
      /\ IF res.kind = "styled"
           THEN styleCache' = stored /\ UNCHANGED instanceCache
           ELSE instanceCache' = stored /\ UNCHANGED styleCache
      /\ last' = [r |-> p.r, props |-> p.props, key |-> p.key,
                  hit |-> FALSE, eff |-> p.eff, obj |-> p.obj]
      /\ returned' = IF <<p.r, p.props>> \in DOMAIN returned THEN returned
                      ELSE MapSet(returned, <<p.r, p.props>>, p.obj.id)
      /\ UNCHANGED <<inputUtils, resolvers, nextId, utilCalls, factoryCalls,
                     calls, primitiveCache, cleared, expansion, helperVars,
                     themeVars, providerVars>>

NextRace ==
  \/ \E config \in PlainConfigs : DeclareStyled(config, MaxDeclared)
  \/ \E configOrFactory \in CacheFactoryInputs :
       DeclareFactoryStyled(configOrFactory, MaxDeclared)
  \/ \E r \in 1..Len(resolvers) : \E props \in RaceProps :
       Begin(r, props, MaxRacers)
  \/ \E i \in 1..Len(pending) : Finish(i)

SpecRace == Init /\ [][NextRace]_vars

(***************************************************************************)
(* expandUtils on its own: a style object is expanded through a util       *)
(* table, and the object returned is expanded through the same table once  *)
(* more.                                                                   *)
(***************************************************************************)
InitExpand ==
  /\ inputUtils \in ExpandTables
  /\ InitResolvers
  /\ InitRace
  /\ InitTheme(NoTheme)
  /\ \E style \in StyleInputs :
       expansion = [phase |-> "input", style |-> style, once |-> <<>>,
                    twice |-> EmptyStyle]
  /\ NoHelpers
  /\ NoProvider

ExpandStyle ==
  /\ expansion.phase = "input"
  /\ expansion' = [expansion EXCEPT
                     !.phase = "once",
                     !.once = Enumerate(expansion.style, inputUtils)]
  /\ UNCHANGED <<inputUtils, resolvers, styleCache, instanceCache, nextId,
                 utilCalls, factoryCalls, calls, last, returned,
                 primitiveCache, cleared, raceVars, themeVars, helperVars,
                 providerVars>>

ExpandAgain ==
  /\ expansion.phase = "once"
  /\ expansion' = [expansion EXCEPT
                     !.phase = "twice",
                     !.twice = expandUtils(expansion.once, inputUtils).out]
  /\ UNCHANGED <<inputUtils, resolvers, styleCache, instanceCache, nextId,
                 utilCalls, factoryCalls, calls, last, returned,
                 primitiveCache, cleared, raceVars, themeVars, helperVars,
                 providerVars>>

NextExpand == ExpandStyle \/ ExpandAgain

SpecExpand == InitExpand /\ [][NextExpand]_vars

(***************************************************************************)
(* cn(...styles).  A style input is null, undefined, false, a number (a    *)
(* registered style), a style object, or an array of style inputs; a style *)
(* object is given by its own keys in order, each with a string or         *)
(* undefined.                                                              *)
(***************************************************************************)
Null == [t |-> "null", v |-> <<>>]
Undefined == [t |-> "undefined", v |-> <<>>]
False == [t |-> "false", v |-> <<>>]
Registered == [t |-> "number", v |-> <<>>]
Obj(pairs) == [t |-> "object", v |-> pairs]
Arr(items) == [t |-> "array", v |-> items]

\* if (style), if (item), if (nested[j])
Truthy(style) == style.t \notin {"null", "undefined", "false"}

IsArray(style) == style.t = "array"

\* typeof style === "object" of a truthy value
IsObject(style) == style.t \in {"object", "array"}

RECURSIVE flattenStyle(_)
RECURSIVE FlattenLoop(_, _, _)
FlattenLoop(style, i, result) ==
  IF i > Len(style) THEN result
  ELSE LET item == style[i] IN
       IF Truthy(item)
         THEN IF IsArray(item)
                THEN FlattenLoop(style, i + 1, result \o flattenStyle(item))
                ELSE FlattenLoop(style, i + 1, Append(result, item))
         ELSE FlattenLoop(style, i + 1, result)

flattenStyle(style) ==
  IF ~Truthy(style) THEN <<>>
  ELSE IF IsArray(style) THEN FlattenLoop(style.v, 1, <<>>)
  ELSE <<style>>

\* The loop of mergeStyles over the keys of one style.
RECURSIVE MergeKeys(_, _, _)
MergeKeysAssigningUndefined(style, j, result) ==
  IF j > Len(style) THEN result
  ELSE MergeKeys(style, j + 1, MapSet(result, style[j][1], style[j][2]))

MergeKeys(style, j, result) ==
  IF j > Len(style) THEN result
  ELSE LET key == style[j][1]
           value == style[j][2]
       IN  IF value # Undef
             THEN MergeKeys(style, j + 1, MapSet(result, key, value))
             ELSE MergeKeys(style, j + 1, result)

RECURSIVE MergeLoop(_, _, _)
MergeLoop(styles, i, result) ==
  IF i > Len(styles) THEN result
  ELSE LET style == styles[i] IN
       IF ~Truthy(style) \/ ~IsObject(style)
         THEN MergeLoop(styles, i + 1, result)
         ELSE MergeLoop(styles, i + 1, MergeKeys(style.v, 1, result))

\* A single style object is returned as it is, with every own key.
mergeStyles(styles) ==
  IF Len(styles) = 0 THEN EmptyStyle
  ELSE IF Len(styles) = 1 /\ Truthy(styles[1]) /\ IsObject(styles[1])
    THEN StyleObject(styles[1].v)
  ELSE MergeLoop(styles, 1, EmptyStyle)

RECURSIVE CnLoop(_, _, _)
CnLoop(styles, i, flattened) ==
  IF i > Len(styles) THEN flattened
  ELSE LET style == styles[i] IN
       IF ~Truthy(style) THEN CnLoop(styles, i + 1, flattened)
       ELSE IF IsArray(style)
         THEN CnLoop(styles, i + 1,
                     flattened \o SelectSeq(flattenStyle(style), Truthy))
       ELSE IF IsObject(style)
         THEN CnLoop(styles, i + 1, Append(flattened, style))
       ELSE CnLoop(styles, i + 1, flattened)

cn(styles) == mergeStyles(CnLoop(styles, 1, <<>>))

\* The arguments of the model.
StyleRed == Obj(<< <<"color", Str("red")>>, <<"margin", Str("4")>> >>)
StyleBlue == Obj(<< <<"color", Str("blue")>> >>)
StyleUnset == Obj(<< <<"color", Undef>>, <<"padding", Str("8")>> >>)

StyleInputsOfCn ==
  {Null, Undefined, False, Registered, StyleRed, StyleBlue, StyleUnset,
   Arr(<<>>),
   Arr(<<Registered>>),
   Arr(<<StyleUnset, StyleRed>>),
   Arr(<<StyleRed, Null, Arr(<<StyleBlue, Arr(<<StyleUnset>>)>>)>>),
   Arr(<<Arr(<<Arr(<<StyleBlue>>)>>), False, StyleRed>>)}

MaxStyles == 2

InitCn ==
  /\ inputUtils \in UtilTables
  /\ InitResolvers
  /\ InitRace
  /\ InitTheme(NoTheme)
  /\ expansion = NoExpansion
  /\ \E n \in 0..MaxStyles : \E styles \in [1..n -> StyleInputsOfCn] :
       merging = [phase |-> "input", styles |-> styles, result |-> <<>>]
  /\ colour = NoColour
  /\ NoProvider

CallCn ==
  /\ merging.phase = "input"
  /\ merging' = [merging EXCEPT !.phase = "returned",
                                !.result = cn(merging.styles)]
  /\ UNCHANGED <<inputUtils, resolvers, styleCache, instanceCache, nextId,
                 utilCalls, factoryCalls, calls, last, returned,
                 primitiveCache, cleared, raceVars, themeVars, expansion,
                 colour, providerVars>>

NextCn == CallCn

SpecCn == InitCn /\ [][NextCn]_vars

(***************************************************************************)
(* alpha(hex, opacity) of utils/alpha.ts.  A string is the sequence of its *)
(* characters.                                                             *)
(***************************************************************************)
MaxOpacity == 102

Opacities == -2..MaxOpacity

LowerDigits == <<"0", "1", "2", "3", "4", "5", "6", "7", "8", "9",
                 "a", "b", "c", "d", "e", "f">>

UpperDigits == <<"0", "1", "2", "3", "4", "5", "6", "7", "8", "9",
                 "A", "B", "C", "D", "E", "F">>

\* [0-9a-f] under the flag i
IsHexDigit(c) == c \in Range(LowerDigits) \cup Range(UpperDigits)

\* /^#([0-9a-f]{6}|[0-9a-f]{3})$/i
hexRegexTest(hex) ==
  /\ Len(hex) \in {4, 7}
  /\ hex[1] = "#"
  /\ \A i \in 2..Len(hex) : IsHexDigit(hex[i])

normalizedHex(hex) ==
  IF Len(hex) = 4
    THEN <<"#", hex[2], hex[2], hex[3], hex[3], hex[4], hex[4]>>
    ELSE hex

MathMin(a, b) == IF a < b THEN a ELSE b
MathMax(a, b) == IF a > b THEN a ELSE b

\* Math.round((clampedOpacity / 100) * 255): the nearest integer, a half
\* rounded up.
RoundScaled(clampedOpacity) == (2 * clampedOpacity * 255 + 100) \div 200

\* n.toString(16)
RECURSIVE ToString16(_)
ToString16(n) ==
  IF n < 16 THEN <<LowerDigits[n + 1]>>
  ELSE Append(ToString16(n \div 16), LowerDigits[(n % 16) + 1])

\* s.padStart(2, "0")
PadStart2(s) == IF Len(s) < 2 THEN <<"0">> \o s ELSE s

alpha(hex, opacity) ==
  IF ~hexRegexTest(hex) THEN [threw |-> TRUE, value |-> <<>>]
  ELSE LET clampedOpacity == MathMax(0, MathMin(100, opacity))
           alphaValue == PadStart2(ToString16(RoundScaled(clampedOpacity)))
       IN  [threw |-> FALSE, value |-> normalizedHex(hex) \o alphaValue]

\* The colours alpha is called with: six and three digits in either case,
\* and strings that are neither.
HexInputs ==
  {<<"#", "F", "F", "0", "0", "0", "0">>,
   <<"#", "3", "b", "8", "2", "f", "6">>,
   <<"#", "F", "0", "0">>,
   <<"#", "a", "B", "c">>,
   <<"F", "F", "0", "0", "0", "0">>,
   <<"#", "F", "F", "0", "0">>,
   <<"#", "G", "G", "0", "0", "0", "0">>,
   <<"#", "F", "F", "0", "0", "0", "0", "F", "F">>,
   <<>>}

InitAlpha ==
  /\ inputUtils \in UtilTables
  /\ InitResolvers
  /\ InitRace
  /\ InitTheme(NoTheme)
  /\ expansion = NoExpansion
  /\ merging = NoMerging
  /\ \E hex \in HexInputs : \E opacity \in Opacities :
       colour = [phase |-> "input", hex |-> hex, opacity |-> opacity,
                 threw |-> FALSE, result |-> <<>>]
  /\ NoProvider

CallAlpha ==
  /\ colour.phase = "input"
  /\ colour' = [colour EXCEPT
                  !.phase = "returned",
                  !.threw = alpha(colour.hex, colour.opacity).threw,
                  !.result = alpha(colour.hex, colour.opacity).value]
  /\ UNCHANGED <<inputUtils, resolvers, styleCache, instanceCache, nextId,
                 utilCalls, factoryCalls, calls, last, returned,
                 primitiveCache, cleared, raceVars, themeVars, expansion,
                 merging, providerVars>>

NextAlpha == CallAlpha

SpecAlpha == InitAlpha /\ [][NextAlpha]_vars

(***************************************************************************)
(* ThemeProvider (src/src/provider/theme-provider.tsx), one instance with  *)
(* the props of its mount.  mode, systemScheme and isHydrated are its      *)
(* state as the latest setState calls left it; view is the render React    *)
(* has committed last: the state it rendered, the memoized context value   *)
(* with the dependencies it was computed for, and whether it returned the  *)
(* children.  setMode and toggle are the closures of that render, called   *)
(* by the children.  appearance is what Appearance reports, storage is what *)
(* the storage holds, read is the promise of onGetStorage, persisted lists *)
(* the arguments of the calls of onSetStorage and requests the calls of    *)
(* setMode and toggle.                                                     *)
(***************************************************************************)
ThemeModes == {"light", "dark", "system"}
ColorSchemeNames == {"light", "dark", "null"}
StoredModes == ThemeModes \cup {"null"}

\* createNVA(...).colorScheme, passed as the prop colors.
ProviderColors ==
  [default |-> [primary |-> "#3b82f6"], dark |-> [primary |-> "#60a5fa"]]

ProviderPropsSet ==
  [defaultMode : ThemeModes, hasGet : BOOLEAN, hasSet : BOOLEAN,
   colors : {ProviderColors}]

resolveColorScheme(m, scheme) ==
  IF m = "system"
    THEN (IF scheme = "dark" THEN "dark" ELSE "light")
    ELSE m

\* The dependencies of useMemo that can change: [mode, systemScheme].
MemoDepsWithoutSystemScheme(m, scheme) == <<m>>

MemoDeps(m, scheme) == <<m, scheme>>

\* The body of useMemo.
ContextValue(m, scheme, colors) ==
  LET colorScheme == resolveColorScheme(m, scheme)
  IN  [colorScheme |-> colorScheme,
       mode |-> m,
       isDark |-> colorScheme = "dark",
       colors |-> IF colorScheme = "dark" THEN colors.dark ELSE colors.default]

\* One render of the component with the state m, scheme, hydrated, after
\* the render prev (first is TRUE for the render that mounts it).
RenderOf(m, scheme, hydrated, prev, first) ==
  [mode |-> m,
   systemScheme |-> scheme,
   isHydrated |-> hydrated,
   deps |-> MemoDeps(m, scheme),
   value |-> IF first \/ MemoDeps(m, scheme) # prev.deps
               THEN ContextValue(m, scheme, providerProps.colors)
               ELSE prev.value,
   children |-> hydrated]

\* useState(!onGetStorage)
HydratedAtMount(p) == TRUE

HydratedInitially(p) == ~p.hasGet

\* The first render: the three useState initializers.
Mount ==
  /\ lifecycle = "unmounted"
  /\ lifecycle' = "rendered"
  /\ mode' = providerProps.defaultMode
  /\ systemScheme' = appearance
  /\ isHydrated' = HydratedInitially(providerProps)
  /\ view' = RenderOf(mode', systemScheme', isHydrated', view, TRUE)
  /\ UNCHANGED <<providerProps, appearance, storage, subscribed, read,
                 persisted, requests, libraryVars>>

\* The two effects of the mount: onGetStorage() is called when supplied,
\* and the listener is added to Appearance.
RunEffects ==
  /\ lifecycle = "rendered"
  /\ lifecycle' = "mounted"
  /\ read' = IF providerProps.hasGet THEN "pending" ELSE "none"
  /\ subscribed' = TRUE
  /\ UNCHANGED <<providerProps, appearance, storage, mode, systemScheme,
                 isHydrated, view, persisted, requests, libraryVars>>

\* The system appearance changes; the listener, once added, calls
\* setSystemScheme(colorScheme).
AppearanceChange(colorScheme) ==
  /\ colorScheme # appearance
  /\ appearance' = colorScheme
  /\ systemScheme' = IF subscribed THEN colorScheme ELSE systemScheme
  /\ UNCHANGED <<providerProps, storage, lifecycle, mode, isHydrated,
                 subscribed, read, view, persisted, requests, libraryVars>>

\* The promise of onGetStorage is fulfilled: if (storedMode)
\* setModeState(storedMode).
StorageResolves ==
  /\ read = "pending"
  /\ read' = "resolved"
  /\ mode' = IF storage # "null" THEN storage ELSE mode
  /\ UNCHANGED <<providerProps, appearance, storage, lifecycle, systemScheme,
                 isHydrated, subscribed, view, persisted, requests,
                 libraryVars>>

\* The next statement of the same callback: setIsHydrated(true).
StorageHydrates ==
  /\ read = "resolved"
  /\ read' = "done"
  /\ isHydrated' = TRUE
  /\ UNCHANGED <<providerProps, appearance, storage, lifecycle, mode,
                 systemScheme, subscribed, view, persisted, requests,
                 libraryVars>>

\* The promise of onGetStorage is rejected: then() has no handler for it.
StorageRejects ==
  /\ read = "pending"
  /\ read' = "rejected"
  /\ UNCHANGED <<providerProps, appearance, storage, lifecycle, mode,
                 systemScheme, isHydrated, subscribed, view, persisted,
                 requests, libraryVars>>

\* React renders the component again after a state change.
Rerender ==
  /\ lifecycle # "unmounted"
  /\ <<view.mode, view.systemScheme, view.isHydrated>>
       # <<mode, systemScheme, isHydrated>>
  /\ view' = RenderOf(mode, systemScheme, isHydrated, view, FALSE)
  /\ UNCHANGED <<providerProps, appearance, storage, lifecycle, mode,
                 systemScheme, isHydrated, subscribed, read, persisted,
                 requests, libraryVars>>

\* onSetStorage(newMode), when supplied.
PersistSkipped(log, newMode) == log

Persist(log, newMode) ==
  IF providerProps.hasSet THEN Append(log, newMode) ELSE log

\* setMode(newMode) as a child calls it: the children are rendered.
SetModeCalled(op, newMode) ==
  /\ view.children
  /\ Len(requests) < MaxRequests
  /\ mode' = newMode
  /\ persisted' = Persist(persisted, newMode)
  /\ requests' = Append(requests, [op |-> op, mode |-> newMode])
  /\ UNCHANGED <<providerProps, appearance, storage, lifecycle, systemScheme,
                 isHydrated, subscribed, read, view, libraryVars>>

setMode(newMode) == SetModeCalled("setMode", newMode)

\* toggle of the committed render: its closure holds the mode and the
\* systemScheme of that render.
OppositeOfMode(m, scheme) == IF m = "light" THEN "dark" ELSE "light"

Opposite(m, scheme) ==
  IF resolveColorScheme(m, scheme) = "light" THEN "dark" ELSE "light"

toggle == SetModeCalled("toggle", Opposite(view.mode, view.systemScheme))

InitThemeProvider ==
  /\ inputUtils = UtilsShorthand
  /\ InitResolvers
  /\ InitRace
  /\ InitTheme(NoTheme)
  /\ expansion = NoExpansion
  /\ NoHelpers
  /\ \E p \in ProviderPropsSet : \E a \in ColorSchemeNames :
       \E s \in (IF p.hasGet THEN StoredModes ELSE {"null"}) :
         InitProvider(p, a, s)

NextThemeProvider ==
  \/ Mount
  \/ RunEffects
  \/ \E colorScheme \in ColorSchemeNames : AppearanceChange(colorScheme)
  \/ StorageResolves
  \/ StorageHydrates
  \/ StorageRejects
  \/ Rerender
  \/ \E newMode \in ThemeModes : setMode(newMode)
  \/ toggle

SpecThemeProvider == InitThemeProvider /\ [][NextThemeProvider]_vars

\* The same with the steps React and the promise job queue always take:
\* the effects run after the first render, the two statements of the then
\* callback run to the end once the promise is fulfilled, and a state
\* change is followed by a render.  Nothing obliges the storage to settle
\* its promise, the system to change its appearance or a child to ask for
\* a mode.
SpecThemeProviderFair ==
  /\ InitThemeProvider
  /\ [][NextThemeProvider]_vars
  /\ WF_vars(Mount)
  /\ WF_vars(RunEffects)
  /\ WF_vars(StorageHydrates)
  /\ WF_vars(Rerender)

(***************************************************************************)
(* Properties.                                                             *)
(***************************************************************************)
Resolvers == 1..Len(resolvers)

LayerBase(r, slot) ==
  IF slot \in DOMAIN resolvers[r].base THEN resolvers[r].base[slot]
  ELSE EmptyStyle
LayerVariant(r, slot, eff) == applyVariant(slot, resolvers[r].variants, eff)
LayerCompound(r, slot, eff) ==
  applyCompound(slot, resolvers[r].frozenCompoundVariants, eff)

\* C1: every resolved style a resolver has computed is, for the selection it
\* was computed for, the key-wise merge of base, then the single-variant
\* matches, then the compound matches: its keys are the keys of the three
\* layers, and each key has the value of the highest layer that sets it.
C1_LayerPrecedence ==
  \A r \in Resolvers : \A k \in DOMAIN Partition(r) :
    LET e == Partition(r)[k] IN
    \A slot \in Range(resolvers[r].frozenSlots) :
      LET b == LayerBase(r, slot)
          v == LayerVariant(r, slot, e.eff)
          c == LayerCompound(r, slot, e.eff)
      IN  /\ DOMAIN e.value[slot] = DOMAIN b \cup DOMAIN v \cup DOMAIN c
          /\ \A p \in DOMAIN e.value[slot] :
               e.value[slot][p] = IF p \in DOMAIN c THEN c[p]
                                  ELSE IF p \in DOMAIN v THEN v[p]
                                  ELSE b[p]

\* A cached result in which base, a variant entry and a compound rule all
\* set padding of root to different values, and the compound value is in it.
C1_Witness ==
  \E r \in Resolvers : \E k \in DOMAIN Partition(r) :
    LET e == Partition(r)[k]
        b == LayerBase(r, "root")
        v == LayerVariant(r, "root", e.eff)
        c == LayerCompound(r, "root", e.eff)
    IN  /\ "padding" \in DOMAIN b \cap DOMAIN v \cap DOMAIN c
        /\ b["padding"] # v["padding"]
        /\ v["padding"] # c["padding"]
        /\ e.value["root"]["padding"] = 32

\* C2: two calls of one resolver with equal effective selections get the
\* same cache key and the same cached object: no resolver holds two cached
\* objects, under different keys, for one effective selection.
C2_EqualSelectionSameObject ==
  \A r \in Resolvers : \A k1, k2 \in DOMAIN Partition(r) :
    Partition(r)[k1].eff = Partition(r)[k2].eff => k1 = k2

NormSel(eff) == [n \in DOMAIN eff |-> normalizeVariantValue(eff[n])]

\* C3: a call never returns a result that was computed and cached for a
\* different effective selection, also for values that contain ':' and ';'.
C3_NoHitAcrossSelections ==
  (last.r # 0 /\ last.hit) => NormSel(last.obj.eff) = NormSel(last.eff)

\* C4: once a call of a resolver with selection S has returned, every later
\* call of that resolver with S returns the identical object and computes
\* nothing; and no cache entry is ever removed or replaced.
C4_StableCachedObject ==
  [][ /\ \A r \in Resolvers : \A k \in DOMAIN Partition(r) :
           /\ k \in DOMAIN Partition(r)'
           /\ Partition(r)'[k] = Partition(r)[k]
      /\ (calls' = calls + 1 /\ <<last'.r, last'.props>> \in DOMAIN returned)
           => /\ last'.obj.id = returned[<<last'.r, last'.props>>]
              /\ nextId' = nextId
              /\ UNCHANGED <<styleCache, instanceCache>>
    ]_vars

\* A selection is called again after a call with another selection, and the
\* object of its first call comes back.
C4_Witness ==
  /\ last.r # 0
  /\ last.hit
  /\ Cardinality(DOMAIN Partition(last.r)) >= 2
  /\ last.obj.id = 1
  /\ nextId = 3
  /\ returned[<<last.r, last.props>>] = 1

\* C5: resolvers never share cache entries: every object in the partition
\* of a resolver was computed by that resolver, and so is every object a
\* call returns.
C5_PartitionPerResolver ==
  /\ \A r \in Resolvers : \A k \in DOMAIN Partition(r) : Partition(r)[k].by = r
  /\ last.r # 0 => last.obj.by = last.r

\* Two resolvers declared from the same configuration hold different
\* objects under the same key.
C5_Witness ==
  \E r1, r2 \in Resolvers :
    /\ r1 # r2
    /\ resolvers[r1].kind = resolvers[r2].kind
    /\ resolvers[r1].source = resolvers[r2].source
    /\ \E k \in DOMAIN Partition(r1) \cap DOMAIN Partition(r2) :
         Partition(r1)[k].id # Partition(r2)[k].id

\* No argument, an empty object, or an object whose keys are all undefined.
NothingProvided(props) ==
  ~props.given \/ \A i \in 1..Len(props.kv) : props.kv[i][2] = Undef

\* The declared defaults of a resolver as a selection.
Defaults(r) ==
  [n \in Range(Keys(resolvers[r].defaultVariants)) |->
     Get(resolvers[r].defaultVariants, n)]

\* C6: a call with nothing provided returns the one object cached under
\* "{}", and that object is the result of the declared defaults alone: an
\* explicit undefined does not override a default.
C6_NothingProvidedIsDefaults ==
  (last.r # 0 /\ NothingProvided(last.props)) =>
     /\ last.key = "{}"
     /\ last.eff = Defaults(last.r)
     /\ last.obj = Partition(last.r)["{}"]
     /\ last.obj.eff = Defaults(last.r)
     /\ \A slot \in Range(resolvers[last.r].frozenSlots) :
          last.obj.value[slot] =
            Merge(Merge(LayerBase(last.r, slot),
                        LayerVariant(last.r, slot, Defaults(last.r))),
                  LayerCompound(last.r, slot, Defaults(last.r)))

\* resolve({size: undefined}) returns the object that resolve() or
\* resolve({}) created, with the default size applied.
C6_Witness ==
  /\ last.r # 0
  /\ last.props = Props(<< <<"size", Undef>> >>)
  /\ last.hit
  /\ Get(resolvers[last.r].defaultVariants, "size") = Str("sm")
  /\ last.obj.eff = [size |-> Str("sm")]
  /\ last.obj.value["root"]["padding"] = 4

BoolKey(b) == IF b THEN "true" ELSE "false"

\* The variant entries declared after the i-th variant and the compound
\* rules: what may overwrite a property the i-th variant sets.
LaterLayers(r, slot, i, eff) ==
  Merge(applyVariant(slot,
                     SubSeq(resolvers[r].variants, i + 1,
                            Len(resolvers[r].variants)),
                     eff),
        LayerCompound(r, slot, eff))

\* C7: a boolean selects the table entry declared under "true" or "false":
\* the properties of that entry are in the computed result unless a later
\* layer sets them; an explicit boolean, false included, is the effective
\* value whatever the default is; and a call selecting a boolean never hits
\* a result cached for the opposite boolean.
C7_BooleanSelection ==
  /\ \A r \in Resolvers : \A k \in DOMAIN Partition(r) :
       LET e == Partition(r)[k] IN
       \A i \in 1..Len(resolvers[r].variants) :
         LET n == resolvers[r].variants[i].name
             values == resolvers[r].variants[i].values
         IN  (n \in DOMAIN e.eff /\ e.eff[n].t = "bool"
              /\ BoolKey(e.eff[n].b) \in DOMAIN values) =>
               \A slot \in Range(resolvers[r].frozenSlots)
                            \cap DOMAIN values[BoolKey(e.eff[n].b)] :
                 \A p \in DOMAIN values[BoolKey(e.eff[n].b)][slot]
                            \ DOMAIN LaterLayers(r, slot, i, e.eff) :
                   /\ p \in DOMAIN e.value[slot]
                   /\ e.value[slot][p] = values[BoolKey(e.eff[n].b)][slot][p]
  /\ last.r # 0 =>
       \A i \in 1..Len(last.props.kv) :
         LET n == last.props.kv[i][1]
             x == last.props.kv[i][2]
         IN  x.t = "bool" =>
               /\ n \in DOMAIN last.eff
               /\ last.eff[n] = x
               /\ (n \in DOMAIN last.obj.eff =>
                     normalizeVariantValue(last.obj.eff[n]) # BoolKey(~x.b))

\* false is selected against a default of true: the entry declared under
\* "false" is applied, and the result for true is cached under another key.
C7_Witness ==
  /\ last.r # 0
  /\ last.props = Props(<< <<"big", Bool(FALSE)>> >>)
  /\ Get(resolvers[last.r].defaultVariants, "big") = Bool(TRUE)
  /\ last.obj.value["root"] = [padding |-> 0]
  /\ \E k \in DOMAIN Partition(last.r) :
       /\ k # last.key
       /\ Partition(last.r)[k].eff = [big |-> Bool(TRUE)]

\* The explicit values of a call that the variant table does not declare.
Undeclared(r, props) ==
  {i \in 1..Len(resolvers[r].variants) :
     LET n == resolvers[r].variants[i].name
         x == Get(props.kv, n)
     IN  /\ props.given
         /\ x # Undef
         /\ normalizeVariantValue(x) \notin DOMAIN resolvers[r].variants[i].values}

\* The table without its i-th variant.
Without(variants, i) ==
  SubSeq(variants, 1, i - 1) \o SubSeq(variants, i + 1, Len(variants))

\* No variant entry and no compound rule applies to the slot.
NoMatch(r, slot, eff) ==
  /\ \A i \in 1..Len(resolvers[r].variants) :
       LET n == resolvers[r].variants[i].name
           values == resolvers[r].variants[i].values
       IN  ~ /\ n \in DOMAIN eff
             /\ eff[n] # Undef
             /\ normalizeVariantValue(eff[n]) \in DOMAIN values
             /\ slot \in DOMAIN values[normalizeVariantValue(eff[n])]
  /\ \A j \in 1..Len(resolvers[r].frozenCompoundVariants) :
       ~ /\ IsMatch(resolvers[r].frozenCompoundVariants[j], eff)
         /\ slot \in DOMAIN resolvers[r].frozenCompoundVariants[j].css

\* C8: when a call computes a result for a selection that explicitly gives a
\* variant a value its table does not declare, the explicit value is the
\* effective one (the default is not applied), the result is what it would
\* be with that variant removed from the table, and a slot without any
\* match is the base style alone.
\* It holds of the values of SpecResolve; SpecMalformed refutes it with the
\* value "constructor", which the lookup of StyleForValue finds on
\* Object.prototype.
C8_UndeclaredValueContributesNothing ==
  (last.r # 0 /\ ~last.hit) =>
     \A i \in Undeclared(last.r, last.props) :
       LET res == resolvers[last.r]
           n == res.variants[i].name
       IN  /\ n \in DOMAIN last.eff
           /\ last.eff[n] = Get(last.props.kv, n)
           /\ \A slot \in Range(res.frozenSlots) :
                /\ last.obj.value[slot] =
                     computeSlotStyles(slot, res.base,
                                       Without(res.variants, i),
                                       res.frozenCompoundVariants, last.eff)
                /\ NoMatch(last.r, slot, last.eff) =>
                     last.obj.value[slot] = LayerBase(last.r, slot)

\* The property names the util functions of a table emit.
UtilOutputs(utils) == UNION {Range(utils[u]) : u \in DOMAIN utils}

FactoryResolvers == {r \in Resolvers : resolvers[r].kind = "factory"}

\* C9 as claimed: no style of a resolved style set of a factory resolver has
\* a key that names a util of the factory's table.
C9_NoUtilNameInResult ==
  \A r \in FactoryResolvers : \A k \in DOMAIN Partition(r) :
    \A slot \in DOMAIN Partition(r)[k].value :
      DOMAIN Partition(r)[k].value[slot] \cap DOMAIN inputUtils = {}

\* C9 as amended: a key of a resolved style that names a util is a property
\* some util function emitted, never a configuration key left unexpanded;
\* so with a table whose utils emit no util name there is no such key.
C9_UtilNameOnlyFromUtilOutput ==
  \A r \in FactoryResolvers : \A k \in DOMAIN Partition(r) :
    \A slot \in DOMAIN Partition(r)[k].value :
      /\ DOMAIN Partition(r)[k].value[slot] \cap DOMAIN inputUtils
           \subseteq UtilOutputs(inputUtils)
      /\ UtilOutputs(inputUtils) \cap DOMAIN inputUtils = {} =>
           DOMAIN Partition(r)[k].value[slot] \cap DOMAIN inputUtils = {}

\* A cached result of a configuration that writes px in base: the px key is
\* gone and the properties px emits are there.
C9_Witness ==
  \E r \in FactoryResolvers : \E k \in DOMAIN Partition(r) :
    /\ "root" \in DOMAIN resolvers[r].source.base
    /\ \E i \in 1..Len(resolvers[r].source.base["root"]) :
         resolvers[r].source.base["root"][i] = <<"px", 10>>
    /\ "px" \notin DOMAIN Partition(r)[k].value["root"]
    /\ Partition(r)[k].value["root"]["paddingRight"] = 10
    /\ UtilOutputs(inputUtils) \cap DOMAIN inputUtils = {}

\* The number of keys that name a util, over base, every variant table leaf
\* and every compound patch of a configuration.
UtilKeysIn(style, utils) ==
  Cardinality({i \in 1..Len(style) : style[i][1] \in DOMAIN utils})

UtilKeyOccurrences(config, utils) ==
  LET InSlots(ss) ==
        SumOver([slot \in DOMAIN ss |-> UtilKeysIn(ss[slot], utils)], DOMAIN ss)
      InValues(vs) == SumOver([v \in DOMAIN vs |-> InSlots(vs[v])], DOMAIN vs)
  IN  InSlots(config.base)
      + SumOver([i \in 1..Len(config.variants) |->
                   InValues(config.variants[i].values)],
                1..Len(config.variants))
      + SumOver([j \in 1..Len(config.compoundVariants) |->
                   InSlots(config.compoundVariants[j].css)],
                1..Len(config.compoundVariants))

\* C10: util functions run only while a configuration is declared, once per
\* util key of the configuration; a resolver call, hit or miss, invokes no
\* util function, evaluates no configuration function and leaves the
\* declared resolvers as they are.
C10_UtilsOnlyAtDeclaration ==
  [][ /\ calls' = calls + 1 =>
           /\ utilCalls' = utilCalls
           /\ factoryCalls' = factoryCalls
           /\ resolvers' = resolvers
      /\ Len(resolvers') = Len(resolvers) + 1 =>
           LET res == resolvers'[Len(resolvers')] IN
           /\ utilCalls' - utilCalls =
                (IF res.kind = "factory"
                   THEN UtilKeyOccurrences(res.source, inputUtils)
                   ELSE 0)
           /\ factoryCalls' - factoryCalls \in {0, 1}
           /\ calls' = calls
    ]_vars

\* A configuration with util keys was declared through the factory by a
\* function, its util keys were expanded once each, and the resolver has
\* since computed a result and returned it again from its cache.
C10_Witness ==
  /\ \E r \in FactoryResolvers :
       /\ UtilKeyOccurrences(resolvers[r].source, inputUtils) >= 1
       /\ utilCalls = UtilKeyOccurrences(resolvers[r].source, inputUtils)
       /\ Partition(r) # <<>>
  /\ factoryCalls = 1
  /\ last.r # 0
  /\ last.hit
  /\ calls = 2

(***************************************************************************)
(* C11: expanding the result of expandUtils once more through the same     *)
(* table gives the same object, for every style and every util table.      *)
(* UtilsChained refutes it: px expands to padding, which the second pass   *)
(* expands to margin.                                                      *)
(***************************************************************************)
C11_ExpandTwiceIsExpandOnce ==
  expansion.phase = "twice" =>
    expansion.twice = StyleObject(expansion.once)

\* No util of the table emits a key that names a util of the table.
NoChaining(utils) ==
  \A k \in DOMAIN utils : Range(utils[k]) \cap DOMAIN utils = {}

\* C11, amended: the second expansion changes nothing when no util of the
\* table emits a util name, and a style without util keys expands to an
\* equal mapping under every table.
C11_IdempotentWithoutChaining ==
  /\ expansion.phase = "twice" /\ NoChaining(inputUtils) =>
       expansion.twice = StyleObject(expansion.once)
  /\ expansion.phase \in {"once", "twice"}
       /\ UtilKeysIn(expansion.style, inputUtils) = 0 =>
       StyleObject(expansion.once) = StyleObject(expansion.style)

\* A style with a util key and a plain key has been expanded twice through
\* a table without chaining, and the util has rewritten the style.
C11_Witness ==
  /\ expansion.phase = "twice"
  /\ NoChaining(inputUtils)
  /\ UtilKeysIn(expansion.style, inputUtils) # 0
  /\ Len(expansion.style) = 2
  /\ StyleObject(expansion.once) # StyleObject(expansion.style)

(***************************************************************************)
(* C12: once clearStyleCache has returned, no resolver holds a cached      *)
(* result: the partition of every resolver is empty until the next call.   *)
(* The code clears primitiveCache only, so every partition keeps its       *)
(* entries and the next call of a used selection is a hit.                 *)
(***************************************************************************)
C12_ClearEmptiesEveryPartition ==
  cleared => \A r \in Resolvers : Partition(r) = <<>>

\* The style objects the configuration of a resolver declares for a slot
\* under a resolved selection: its base, the entry of each declared variant
\* for the selected value, the patch of each matching compound rule.
Contributors(r, slot, eff) ==
  LET res == resolvers[r]
      selected == {i \in 1..Len(res.variants) :
                     /\ res.variants[i].name \in DOMAIN eff
                     /\ eff[res.variants[i].name] # Undef
                     /\ normalizeVariantValue(eff[res.variants[i].name])
                          \in DOMAIN res.variants[i].values
                     /\ slot \in DOMAIN res.variants[i].values[
                          normalizeVariantValue(eff[res.variants[i].name])]}
      matching == {j \in 1..Len(res.frozenCompoundVariants) :
                     /\ IsMatch(res.frozenCompoundVariants[j], eff)
                     /\ slot \in DOMAIN res.frozenCompoundVariants[j].css}
  IN  (IF slot \in DOMAIN res.base THEN {res.base[slot]} ELSE {})
      \cup {res.variants[i].values[
               normalizeVariantValue(eff[res.variants[i].name])][slot] :
             i \in selected}
      \cup {res.frozenCompoundVariants[j].css[slot] : j \in matching}

(***************************************************************************)
(* C13: a call with a selection that does not fit the variant table        *)
(* returns a style for every declared slot, and every property of it comes *)
(* from the base, a declared entry of the selected value or a matching     *)
(* compound patch: undeclared names, undeclared values and entries without *)
(* the slot contribute nothing.  The value "constructor" refutes it on a   *)
(* slot called name: the lookup finds Object.prototype.constructor and     *)
(* spreads its name into the style.                                        *)
(***************************************************************************)
C13_MalformedInputContributesNothing ==
  (last.r # 0 /\ ~last.hit) =>
     /\ DOMAIN last.obj.value = Range(resolvers[last.r].frozenSlots)
     /\ \A slot \in DOMAIN last.obj.value :
          \A k \in DOMAIN last.obj.value[slot] :
            \E c \in Contributors(last.r, slot, last.eff) :
              k \in DOMAIN c /\ c[k] = last.obj.value[slot][k]

\* The invocation that stores in this step, if the step is a store.
Storing(i) == i \in 1..Len(pending) /\ pending' = RemoveAt(pending, i)

\* The invocation in flight missed, and another invocation has stored an
\* entry for its key since: both missed before either stored.
Raced(p) == p.key \in DOMAIN Partition(p.r)

DefinedPairs(props) ==
  {<<k, Get(props.kv, k)>> :
     k \in {n \in Range(Keys(props.kv)) : Get(props.kv, n) # Undef}}

(***************************************************************************)
(* C15: a call whose selection has the same defined key/value pairs as the *)
(* selection of an earlier call of the resolver, in whatever key order,    *)
(* uses the same key and returns the same object; a selection without a    *)
(* defined key has the key "{}".                                           *)
(***************************************************************************)
C15_KeyIgnoresKeyOrder ==
  last.r # 0 =>
    /\ last.key = createCacheKey(last.props)
    /\ DefinedPairs(last.props) = {} => last.key = "{}"
    /\ \A e \in DOMAIN returned :
         (e[1] = last.r /\ DefinedPairs(e[2]) = DefinedPairs(last.props)) =>
            /\ createCacheKey(e[2]) = last.key
            /\ returned[e] = last.obj.id

\* {big: true, size: "lg"} has returned the object computed for
\* {size: "lg", big: true}.
C15_Witness ==
  /\ last.r # 0
  /\ last.hit
  /\ last.props = Props(<< <<"big", Bool(TRUE)>>, <<"size", Str("lg")>> >>)
  /\ last.key = "big:true;size:lg;"
  /\ <<last.r, Props(<< <<"size", Str("lg")>>, <<"big", Bool(TRUE)>> >>)>>
       \in DOMAIN returned
  /\ returned[<<last.r,
                Props(<< <<"size", Str("lg")>>, <<"big", Bool(TRUE)>> >>)>>]
       = last.obj.id

\* The keys of the calls a resolver has answered.
KeysCalled(r) == {createCacheKey(e[2]) : e \in {c \in DOMAIN returned : c[1] = r}}

(***************************************************************************)
(* C16: the theme of a factory is the one createNVA built: its colours map *)
(* every name of the caller's default scheme to the caller's value, also a *)
(* name of the built-in palette, and every other palette name to the       *)
(* built-in value; every factory function is handed that theme; and the    *)
(* entries of a resolver are those of the keys it was called with,         *)
(* whatever the theme and its dark scheme.                                 *)
(***************************************************************************)
C16_ThemeResolvedOnceCallerWins ==
  LET userColors == IF inputTheme.given THEN inputTheme.default ELSE <<>>
  IN  /\ DOMAIN resolvedTheme.colors = DOMAIN Palette \cup DOMAIN userColors
      /\ \A n \in DOMAIN userColors :
           resolvedTheme.colors[n] = userColors[n]
      /\ \A n \in DOMAIN Palette \ DOMAIN userColors :
           resolvedTheme.colors[n] = Palette[n]
      /\ \A r \in FactoryResolvers :
           /\ \A i \in 1..Len(resolvers[r].handed) :
                resolvers[r].handed[i] = resolvedTheme
           /\ DOMAIN Partition(r) = KeysCalled(r)
      /\ last.r # 0 => last.key = createCacheKey(last.props)

\* The caller's scheme redeclares black; a factory function was handed the
\* theme, its resolver shows the caller's black, and a call of it has hit.
C16_Witness ==
  /\ inputTheme.given
  /\ "black" \in DOMAIN inputTheme.default
  /\ inputTheme.default["black"] # Palette["black"]
  /\ resolvedTheme.colors["white"] = Palette["white"]
  /\ last.r # 0
  /\ last.hit
  /\ resolvers[last.r].handed = <<resolvedTheme>>
  /\ last.obj.value["root"]["borderColor"] = inputTheme.default["black"]

ToggleStep ==
  /\ Len(requests') = Len(requests) + 1
  /\ requests'[Len(requests')].op = "toggle"

C19_ChildrenAfterStorageRead ==
  [][ /\ (providerProps.hasGet /\ read' # "done") => ~view'.children
      /\ (~view.children /\ view'.children) =>
           /\ view'.mode = (IF providerProps.hasGet /\ storage # "null"
                              THEN storage
                              ELSE providerProps.defaultMode)
           /\ view'.value.mode = view'.mode
      /\ (~providerProps.hasGet /\ lifecycle' # "unmounted") =>
           view'.children
    ]_vars

\* The read gave "dark" against a defaultMode of "light", and the children
\* are rendered with it.
C19_Witness ==
  /\ providerProps.hasGet
  /\ providerProps.defaultMode = "light"
  /\ storage = "dark"
  /\ read = "done"
  /\ view.children
  /\ view.mode = "dark"
  /\ requests = <<>>

(***************************************************************************)
(* C20: onSetStorage, when supplied, has been called once for every call   *)
(* of setMode and toggle, with the mode of that call, in the order of the  *)
(* calls, and for nothing else: not for the mode loaded at the mount, not  *)
(* for a change of the system appearance.  When it is not supplied nothing *)
(* is called.                                                              *)
(***************************************************************************)
C20_EveryRequestPersistedOnce ==
  persisted = (IF providerProps.hasSet
                 THEN [i \in 1..Len(requests) |-> requests[i].mode]
                 ELSE <<>>)

\* A mode was loaded at the mount, the system appearance has changed, and
\* setMode and toggle were called: two calls of onSetStorage.
C20_Witness ==
  /\ providerProps.hasSet
  /\ providerProps.hasGet
  /\ storage = "system"
  /\ read = "done"
  /\ appearance # view.systemScheme
  /\ Len(requests) = 2
  /\ requests[1].op = "setMode"
  /\ requests[2].op = "toggle"
  /\ persisted = <<requests[1].mode, requests[2].mode>>
  /\ persisted[1] # persisted[2]

(***************************************************************************)
(* C21.  cn returns the left-to-right merge of the style objects found in  *)
(* its arguments.                                                          *)
(***************************************************************************)
\* The style objects of a list of inputs, in order: falsy inputs dropped,
\* arrays replaced by the style objects they hold, at any depth.
RECURSIVE StyleObjectsIn(_)
StyleObjectsIn(inputs) ==
  IF inputs = <<>> THEN <<>>
  ELSE LET x == Head(inputs)
           found == IF x.t = "object" THEN <<x.v>>
                    ELSE IF x.t = "array" THEN StyleObjectsIn(x.v)
                    ELSE <<>>
       IN  found \o StyleObjectsIn(Tail(inputs))

\* The positions of the style objects that give property k a defined value.
Defining(found, k) ==
  {i \in 1..Len(found) : HasOwn(found[i], k) /\ Get(found[i], k) # Undef}

\* C21: every property of the result of cn has the value the last style
\* object found in the arguments gives it, a later undefined leaving an
\* earlier defined value in place; a property no style object defines is
\* undefined in the result, and without a style object the result is empty.
C21_CnMergesLeftToRight ==
  merging.phase = "returned" =>
    LET found == StyleObjectsIn(merging.styles)
        Max(S) == CHOOSE i \in S : \A j \in S : j <= i
    IN  /\ found = <<>> => merging.result = EmptyStyle
        /\ \A k \in {"color", "margin", "padding"} :
             IF Defining(found, k) = {}
               THEN k \in DOMAIN merging.result => merging.result[k] = Undef
               ELSE /\ k \in DOMAIN merging.result
                    /\ merging.result[k] = Get(found[Max(Defining(found, k))], k)
        /\ DOMAIN merging.result \subseteq {"color", "margin", "padding"}

\* cn has merged three style objects nested two arrays deep: the second
\* overrides the colour of the first, the third has the colour undefined.
C21_Witness ==
  /\ merging.phase = "returned"
  /\ Len(merging.styles) = 2
  /\ merging.styles[2] =
       Arr(<<StyleRed, Null, Arr(<<StyleBlue, Arr(<<StyleUnset>>)>>)>>)
  /\ merging.styles[1] = False
  /\ merging.result = [color |-> Str("blue"), margin |-> Str("4"),
                       padding |-> Str("8")]

(***************************************************************************)
(* C22.  alpha returns #RRGGBBAA.                                          *)
(***************************************************************************)
\* A colour string of the form #RGB or #RRGGBB.
WellFormedHex(hex) ==
  /\ Len(hex) \in {4, 7}
  /\ hex[1] = "#"
  /\ \A i \in 2..Len(hex) : hex[i] \in Range(UpperDigits) \cup Range(LowerDigits)

SixDigitForm(hex) ==
  IF Len(hex) = 7 THEN hex
  ELSE [i \in 1..7 |-> IF i = 1 THEN "#" ELSE hex[(i \div 2) + 1]]

\* C22: for a well-formed colour alpha returns its six-digit form followed
\* by two hex digits, which are 00 for an opacity of 0 or less, FF for 100
\* or more and 7F for 50; for any other string it raises an error.
C22_AlphaAppendsOpacity ==
  colour.phase = "returned" =>
    IF WellFormedHex(colour.hex)
      THEN /\ ~colour.threw
           /\ Len(colour.result) = 9
           /\ SubSeq(colour.result, 1, 7) = SixDigitForm(colour.hex)
           /\ \A i \in 8..9 : IsHexDigit(colour.result[i])
           /\ colour.opacity <= 0 => SubSeq(colour.result, 8, 9) = <<"0", "0">>
           /\ colour.opacity >= 100 => SubSeq(colour.result, 8, 9) = <<"F", "F">>
           /\ colour.opacity = 50 => SubSeq(colour.result, 8, 9) = <<"7", "F">>
      ELSE colour.threw

(***************************************************************************)
(* C23.  Single-variant matches are merged in the order the variant table  *)
(* declares the variant names.                                             *)
(***************************************************************************)
\* The variants of resolver r, by their position in the table, whose entry
\* for the selected value sets property p of the slot.
Setting(r, slot, eff, p) ==
  LET res == resolvers[r] IN
  {i \in 1..Len(res.variants) :
     /\ res.variants[i].name \in DOMAIN eff
     /\ eff[res.variants[i].name] # Undef
     /\ normalizeVariantValue(eff[res.variants[i].name])
          \in DOMAIN res.variants[i].values
     /\ slot \in DOMAIN res.variants[i].values[
          normalizeVariantValue(eff[res.variants[i].name])]
     /\ p \in DOMAIN res.variants[i].values[
          normalizeVariantValue(eff[res.variants[i].name])][slot]}

\* C23: in every computed result, a property that selected variants set and
\* no compound rule sets has the value of the variant declared last in the
\* table among them, whatever the order of the keys of the selection and
\* of defaultVariants.
C23_LaterDeclaredVariantWins ==
  (last.r # 0 /\ ~last.hit) =>
    \A slot \in Range(resolvers[last.r].frozenSlots) :
      \A p \in {"padding", "margin", "paddingLeft", "paddingRight"} :
        LET setting == Setting(last.r, slot, last.eff, p)
            latest == CHOOSE i \in setting : \A j \in setting : j <= i
            variant == resolvers[last.r].variants[latest]
        IN  (setting # {} /\ p \notin DOMAIN LayerCompound(last.r, slot, last.eff))
              => /\ p \in DOMAIN last.obj.value[slot]
                 /\ last.obj.value[slot][p] =
                      variant.values[
                        normalizeVariantValue(last.eff[variant.name])][slot][p]

(***************************************************************************)
(* C24, C25.  Compound rules.                                              *)
(***************************************************************************)
\* The effective selection has a value for every key of the condition set.
Present(cv, eff) ==
  \A i \in 1..Len(cv.cond) :
     cv.cond[i][1] \in DOMAIN eff /\ eff[cv.cond[i][1]] # Undef

\* The value the effective selection has for a variant, undefined when it
\* has none.
Effective(eff, name) == IF name \in DOMAIN eff THEN eff[name] ELSE Undef

\* A rule matches: for every key of its condition set the normalized value
\* equals the normalized effective value.
RuleMatches(cv, eff) ==
  \A i \in 1..Len(cv.cond) :
     normalizeVariantValue(cv.cond[i][2])
       = normalizeVariantValue(Effective(eff, cv.cond[i][1]))

\* The matching rules of resolver r, by position, that set property p of
\* the slot.
Patching(r, slot, eff, p) ==
  LET rules == resolvers[r].frozenCompoundVariants IN
  {j \in 1..Len(rules) :
     /\ RuleMatches(rules[j], eff)
     /\ slot \in DOMAIN rules[j].css
     /\ p \in DOMAIN rules[j].css[slot]}

\* C24: in every computed result, a property that matching compound rules
\* set has the value of the last of them in the array; any other property
\* is as base and the single-variant matches leave it, so a rule that does
\* not match contributes nothing.  A rule matches when every key of its
\* condition set has, normalized, the value of the effective selection,
\* defaults included; a rule without conditions always matches.
C24_CompoundRulesInArrayOrder ==
  (last.r # 0 /\ ~last.hit) =>
    \A slot \in Range(resolvers[last.r].frozenSlots) :
      LET below == Merge(LayerBase(last.r, slot),
                         LayerVariant(last.r, slot, last.eff))
          style == last.obj.value[slot]
      IN  \A p \in {"padding", "margin", "paddingLeft", "paddingRight", "px"} :
            LET patching == Patching(last.r, slot, last.eff, p)
                latest == CHOOSE j \in patching : \A i \in patching : i <= j
            IN  IF patching # {}
                  THEN /\ p \in DOMAIN style
                       /\ style[p] = resolvers[last.r]
                                       .frozenCompoundVariants[latest].css[slot][p]
                  ELSE /\ p \in DOMAIN style <=> p \in DOMAIN below
                       /\ p \in DOMAIN style => style[p] = below[p]

\* The default of size alone satisfies the second rule, a boolean selection
\* satisfies the conditions written true and "true": the third rule has
\* overwritten the padding of the second, the second the margin of the
\* first, and the rules that do not match have left nothing.
C24_Witness ==
  /\ last.r # 0 /\ ~last.hit
  /\ last.props = Props(<< <<"big", Bool(TRUE)>> >>)
  /\ resolvers[last.r].source = CfgCompound
  /\ last.obj.value["root"] = [padding |-> 6, margin |-> 2, paddingLeft |-> 7]

\* C25: in every computed result, a compound rule whose condition set names
\* a variant the effective selection has no value for has contributed
\* nothing: the result is what it is without the rule.
C25_MissingVariantNeverMatches ==
  (last.r # 0 /\ ~last.hit) =>
    LET res == resolvers[last.r] IN
    \A j \in 1..Len(res.frozenCompoundVariants) :
      ~Present(res.frozenCompoundVariants[j], last.eff) =>
        \A slot \in Range(res.frozenSlots) :
          last.obj.value[slot] =
            computeSlotStyles(slot, res.base, res.variants,
                              RemoveAt(res.frozenCompoundVariants, j),
                              last.eff)

(***************************************************************************)
(* C26.  expandUtils is the fold over the keys of the style.               *)
(***************************************************************************)
\* The positions of the style whose key writes property p: a key that names
\* a util of the table writes what the util returns, any other key writes
\* itself.
Writers(style, utils, p) ==
  {i \in 1..Len(style) :
     IF style[i][1] \in DOMAIN utils
       THEN p \in Range(utils[style[i][1]])
       ELSE style[i][1] = p}

\* The property names a style and the utils of a table can write.
Writable(style, utils) ==
  Range(Keys(style)) \cup UNION {Range(utils[u]) : u \in DOMAIN utils}

\* C26: the result of expandUtils has exactly the properties some key of
\* the style writes, each with the value of the last key that writes it: a
\* key that names a util is expanded through the util, also when it is the
\* name of a style property, and every other key is copied.
C26_ExpandIsFoldOverKeys ==
  expansion.phase \in {"once", "twice"} =>
    LET result == StyleObject(expansion.once) IN
    \A p \in Writable(expansion.style, inputUtils) :
      LET writers == Writers(expansion.style, inputUtils, p)
          latest == CHOOSE i \in writers : \A j \in writers : j <= i
      IN  /\ p \in DOMAIN result <=> writers # {}
          /\ writers # {} => result[p] = expansion.style[latest][2]

\* A util named padding has written padding and margin, and the key margin
\* after it has overwritten the margin the util wrote.
C26_Witness ==
  /\ expansion.phase = "once"
  /\ inputUtils = UtilsShadowing
  /\ expansion.style = << <<"padding", 1>>, <<"margin", 2>> >>
  /\ StyleObject(expansion.once) = [padding |-> 1, margin |-> 2]

(***************************************************************************)
(* C27.  Changes to the caller's arrays after the declaration.             *)
(***************************************************************************)
\* The compound rules of resolver r as they were declared, in the form the
\* compound matcher reads.
DeclaredRules(r) ==
  IF resolvers[r].kind = "styled"
    THEN [i \in 1..Len(resolvers[r].source.compoundVariants) |->
            [cond |-> resolvers[r].source.compoundVariants[i].cond,
             css |-> [slot \in DOMAIN resolvers[r].source.compoundVariants[i].css |->
                        StyleObject(resolvers[r].source.compoundVariants[i].css[slot])]]]
    ELSE expandCompoundUtils(resolvers[r].source.compoundVariants,
                             inputUtils).out

\* The result of resolver r for a resolved selection, from the slots and
\* the compound rules of the configuration as declared.
AsDeclared(r, eff) ==
  [slot \in Range(resolvers[r].source.slots) |->
     computeSlotStyles(slot, resolvers[r].base, resolvers[r].variants,
                       DeclaredRules(r), eff)]

\* C27: whatever the caller has pushed to, popped from or reversed in the
\* slots array and the compoundVariants array since the declaration, every
\* result a resolver computes or holds in its cache is the result for the
\* arrays as they were declared.
C27_ArrayMutationChangesNoResult ==
  /\ \A r \in Resolvers : \A k \in DOMAIN Partition(r) :
       Partition(r)[k].value = AsDeclared(r, Partition(r)[k].eff)
  /\ (last.r # 0 /\ ~last.hit) => last.obj.value = AsDeclared(last.r, last.eff)

\* The caller has changed an array of the configuration after one call,
\* and the resolver has since computed the result of another selection.
C27_Witness ==
  /\ last.r # 0 /\ ~last.hit
  /\ resolvers[last.r].mutations > 0
  /\ resolvers[last.r].arrays.slots # resolvers[last.r].source.slots
  /\ resolvers[last.r].mutatedAt = 1
  /\ calls = 2
  /\ Cardinality(DOMAIN Partition(last.r)) = 2

(***************************************************************************)
(* C28.  The slots of a resolved style set.                                *)
(***************************************************************************)
\* What the configuration of resolver r declares for a slot under a
\* resolved selection, absent parts counted as empty.
Declares(config, slot, eff) ==
  \/ slot \in DOMAIN OrEmpty(config, "base")
  \/ \E i \in 1..Len(OrEmpty(config, "variants")) :
       LET variant == config.variants[i] IN
       /\ variant.name \in DOMAIN eff
       /\ normalizeVariantValue(eff[variant.name]) \in DOMAIN variant.values
       /\ slot \in DOMAIN variant.values[normalizeVariantValue(eff[variant.name])]
  \/ \E j \in 1..Len(OrEmpty(config, "compoundVariants")) :
       /\ RuleMatches(config.compoundVariants[j], eff)
       /\ slot \in DOMAIN config.compoundVariants[j].css

\* C28: every result a resolver computes or holds has exactly the declared
\* slots as its keys, a slot nothing is declared for with the empty style;
\* slots that only base, variant entries or compound patches name are not
\* in it.  The configurations include ones without base, variants,
\* defaultVariants and compoundVariants.
C28_KeysAreTheDeclaredSlots ==
  /\ \A r \in Resolvers : \A k \in DOMAIN Partition(r) :
       LET e == Partition(r)[k] IN
       /\ DOMAIN e.value = Range(resolvers[r].source.slots)
       /\ \A slot \in DOMAIN e.value :
            ~Declares(resolvers[r].source, slot, e.eff)
              => e.value[slot] = EmptyStyle
  /\ (last.r # 0 /\ ~last.hit) =>
       /\ DOMAIN last.obj.value = Range(resolvers[last.r].source.slots)
       /\ \A slot \in DOMAIN last.obj.value :
            ~Declares(resolvers[last.r].source, slot, last.eff)
              => last.obj.value[slot] = EmptyStyle

\* A configuration without defaultVariants whose base, variant entry and
\* matching compound rule style a slot the list does not declare: the
\* result has the two declared slots, one of them empty.
C28_Witness ==
  /\ last.r # 0 /\ ~last.hit
  /\ resolvers[last.r].source = CfgGhost
  /\ last.props = Props(<< <<"size", Str("lg")>> >>)
  /\ DOMAIN last.obj.value = {"root", "icon"}
  /\ last.obj.value["icon"] = EmptyStyle
  /\ last.obj.value["root"] # EmptyStyle

(***************************************************************************)
(* C29.  styled of the plain module and styled of a factory without utils. *)
(***************************************************************************)
\* The second call of a pair is made: the selection the one resolver has
\* just answered is passed to the other.
SecondOfPair == calls % 2 = 1 /\ calls' = calls + 1

\* C29: a resolver declared with styled of the plain module and one declared
\* with styled of a factory without utils, from the same configuration and
\* called with the same selections in the same order, return equal style
\* sets at every call and both hit or both miss their caches at every call.
C29_PlainAndFactoryAgree ==
  [][SecondOfPair =>
       /\ last'.r # last.r
       /\ last'.props = last.props
       /\ last'.obj.value = last.obj.value
       /\ last'.hit = last.hit]_vars

\* Both resolvers have answered a second selection from their caches, with
\* a style set that is not empty; the selection differs from the first one
\* and hits on its key.
C29_Witness ==
  /\ calls = 4
  /\ last.hit
  /\ resolvers[last.r].kind = "factory"
  /\ resolvers[last.r].source = CfgCompound
  /\ last.props = Props(<< <<"big", Str("true")>> >>)
  /\ last.obj.eff = [size |-> Str("sm"), big |-> Bool(TRUE)]
  /\ last.obj.value["root"]["padding"] = 6

(***************************************************************************)
(* C30.  Hydration after the storage read.                                 *)
(***************************************************************************)
\* The promise onGetStorage has returned is settled.
Fulfilled == read \in {"resolved", "done"}
Rejected == read = "rejected"

\* C30: once the promise of onGetStorage is settled, fulfilled with a mode,
\* fulfilled with null or rejected, the provider eventually is hydrated and
\* renders its children.
C30_HydratedOnceReadSettled ==
  (Fulfilled \/ Rejected) ~> (isHydrated /\ view.children)
====
